---- MODULE Spec2Model ----
(***************************************************************************)
(* Ape-X style asynchronous replay optimizer                               *)
(* (python/ray/rllib/optimizers/async_replay_optimizer.py).                *)
(*                                                                         *)
(* Two threads are modelled: the coordinator (AsyncReplayOptimizer.step /  *)
(* _step, position cpc) and the learner (LearnerThread.run / step,         *)
(* position lpc).  Remote actors are single-threaded and execute the calls *)
(* of their only caller, the coordinator, in submission order, so the      *)
(* effect of a call on a shard is applied when the call is submitted and   *)
(* the result of a replay() request is fixed at submission; what stays     *)
(* asynchronous is the moment ray.wait reports a request as finished.      *)
(***************************************************************************)
EXTENDS Integers, Sequences, FiniteSets, Bags, TLC

\* Module constants of the source.
SAMPLE_QUEUE_DEPTH == 2
REPLAY_QUEUE_DEPTH == 4
\* 16 in the source; scaled down so that a full inbound queue is reached.
LEARNER_QUEUE_MAX_SIZE == 2

\* Configuration of the modelled instances (constructor arguments of _init);
\* num_replay_buffer_shards, learning_starts and buffer_size are variables,
\* fixed by the initial state.
train_batch_size == 1
sample_batch_size == 2
\* prioritized_replay_alpha is 0.6 by default; 1 keeps the sum tree integral.
prioritized_replay_alpha == 1
\* prioritized_replay_eps is 1e-6 by default; priorities are counted in units
\* of it.
prioritized_replay_eps == 1
\* The priority a buffer gives a newly added transition: the running maximum
\* priority, which stays at its initial value while no priority is updated.
max_priority == 1
\* The literal 16 of save() and restore(): transitions per get_data request
\* and per restored add_batch.
CHUNK == 16

\* Bounds of the model.
NumWorkers == 2
MaxDelay == 3
MaxTicks == 2
\* Shards of the optimizer that saves and restores, their capacity, the
\* largest number of transitions a shard holds when save() is called, and
\* the largest period of the done flags among them.
NumReplayActors == 2
ShardCapacity == 32
MaxStored == 17
MaxPeriod == 2
\* The largest value of a global counter in the data restore() is given.
MaxRestoredSteps == 2
\* Actors and calls of the TaskPool taken on its own.
NumPoolActors == 2
MaxCalls == 4
\* The ReplayActor taken on its own: largest learning_starts, num_shards and
\* train_batch_size it is constructed with, its capacity, and the largest
\* absolute td error it is given.
MaxLearningStarts == 2
MaxShards == 2
MaxTrainBatch == 2
ActorCapacity == 2
MaxError == 2
\* Pairs put on the inbound queue of the LearnerThread taken on its own.
MaxFeed == 4
\* The DDPGEvaluator taken on its own: largest sample_batch_size and n_step
\* of its config, largest gamma (an integer here), largest reward of an
\* environment step, length of the cycle of observations, and the calls of
\* sample().
MaxSampleBatch == 2
MaxNStep == 3
MaxGamma == 2
MaxReward == 1
MaxObs == 2
MaxSamples == 2
\* The calls of restore() on it, and the largest local_timestep of the data
\* restored.
MaxRestores == 1
MaxTimestep == 3
\* The replay shard under the requests of a running optimizer: the
\* transitions added to it in all, and the replayed batches whose priority
\* update has not yet arrived.
MaxAdded == 4
MaxPending == 2

Workers == 1..NumWorkers
\* The results of a sample_with_count() call: the count of the batch, which
\* DDPGEvaluator.sample asserts to be sample_batch_size, or Fail when the call
\* raised on the worker.
Fail == 0 - 1
SampleResults == {sample_batch_size, Fail}
\* The thresholds a completion can reach alone (sample_batch_size) or only
\* together with earlier ones.
Delays == sample_batch_size..MaxDelay
\* ReplayActor.replay() returning None; a batch is its batch_indexes column.
None == << >>

SeqsUpTo(S, n) == UNION {[1..k -> S] : k \in 0..n}

Min(a, b) == IF a < b THEN a ELSE b

VARIABLES
    \* arguments of AsyncReplayOptimizer._init, never assigned afterwards
    num_replay_buffer_shards, learning_starts, buffer_size,
    \* AsyncReplayOptimizer
    remote_evaluators, max_weight_sync_delay, steps_since_update,
    num_weight_syncs, learning_started, num_steps_sampled, num_steps_trained,
    sample_tasks, replay_tasks,
    \* locals of step() / _step() and the coordinator's position
    cpc, completed, ev_cur, weights, ready, samples, sample_timesteps,
    train_timesteps,
    \* LearnerThread
    inqueue, outqueue, weights_updated, lpc, cur,
    \* ReplayActor shards
    buffer_len, update_calls, last_update,
    \* bookkeeping of the model
    ticks, raised, captures, syncs, due, pushed, flags, torn, out_puts,
    \* the tuples the learner thread has put on its outbound queue, and the
    \* pairs its producer has put on the inbound queue when the thread is
    \* taken on its own
    out_log, in_log,
    \* the counts of the sample completions processed and the sizes of the
    \* outbound tuples drained, summed over the run
    counted_sampled, counted_trained,
    \* the remote calls issued by set_evaluators, or by the running
    \* iteration of the sample loop, in the order they were issued
    sent,
    \* the shards' buffers as save() and restore() see them
    storage, next_idx, it_sum,
    \* the checkpoint file, and the file of the previous save
    file, exported,
    \* locals of save() and restore() and the caller's position
    ck_pc, num_samples, start_indices, get_data_tasks, lines_read, rows,
    ra_idx,
    \* bookkeeping of the model
    exports, get_calls, add_calls,
    \* a TaskPool on its own: outstanding calls, calls finished on their
    \* actors, the rest of the running completed() iteration, and the
    \* model's record of the calls added and of the pairs yielded
    tp_tasks, tp_finished, tp_ready, tp_added, tp_yielded,
    \* a ReplayActor on its own: its constructor arguments, the priorities
    \* of the stored transitions, the buffer's cursor and running maximum
    \* priority, and the last call with its result
    actor_replay_starts, actor_train_batch_size, actor_eps, actor_priorities,
    actor_next_idx, actor_max_priority, actor_call,
    \* a DDPGEvaluator on its own: config["sample_batch_size"],
    \* config["n_step"], config["gamma"], self.obs, self.local_timestep, the
    \* batch the last sample() built, whether its assertion failed, and the
    \* model's record of the lengths of the five lists before the n-step
    \* adjustment and of the calls of sample() and of restore() made; and
    \* the observation self.env last gave, which is the environment's state
    cfg_sample_batch_size, cfg_n_step, cfg_gamma, self_obs, local_timestep,
    built, assert_failed, collected, sample_calls, restore_calls, env_obs,
    \* a replay shard under the requests of a running optimizer: the
    \* transitions in the slots of its buffer, the buffer's cursor, the
    \* number of transitions added so far, the bag of the batches replayed
    \* from it whose priority update has not arrived (two replays can give
    \* equal batches), and the last priority update applied
    ring_storage, ring_next_idx, ring_added, ring_pending, ring_update

ringVars == <<ring_storage, ring_next_idx, ring_added, ring_pending,
              ring_update>>

evaluatorVars == <<cfg_sample_batch_size, cfg_n_step, cfg_gamma, self_obs,
                   local_timestep, built, assert_failed, collected,
                   sample_calls, restore_calls, env_obs>>

actorVars == <<actor_replay_starts, actor_train_batch_size, actor_eps,
               actor_priorities, actor_next_idx, actor_max_priority,
               actor_call>>

taskPoolVars == <<tp_tasks, tp_finished, tp_ready, tp_added, tp_yielded>>

ckptVars == <<storage, next_idx, it_sum, file, exported, ck_pc, num_samples,
              start_indices, get_data_tasks, lines_read, rows, ra_idx,
              exports, get_calls, add_calls>>

vars == <<num_replay_buffer_shards, learning_starts, buffer_size,
          remote_evaluators, max_weight_sync_delay, steps_since_update,
          num_weight_syncs, learning_started, num_steps_sampled,
          num_steps_trained, sample_tasks, replay_tasks, cpc, completed,
          ev_cur, weights, ready, samples, sample_timesteps, train_timesteps,
          inqueue, outqueue, weights_updated, lpc, cur, buffer_len,
          update_calls, last_update, ticks, raised, captures, syncs, due,
          pushed, flags, torn, out_puts, in_log, out_log, counted_sampled,
          counted_trained, sent, ckptVars,
          taskPoolVars,
          actorVars,
          evaluatorVars,
          ringVars>>

configVars == <<num_replay_buffer_shards, learning_starts, buffer_size>>
optVars == <<remote_evaluators, max_weight_sync_delay, steps_since_update,
             num_weight_syncs, learning_started, num_steps_sampled,
             num_steps_trained>>
poolVars == <<sample_tasks, replay_tasks>>
learnerVars == <<inqueue, outqueue, weights_updated, lpc, cur>>
shardVars == <<buffer_len, update_calls, last_update>>
tickGhost == <<captures, syncs, due, pushed, flags>>
stepLocals == <<completed, ev_cur, weights, ready, samples, sample_timesteps,
                train_timesteps>>

----------------------------------------------------------------------------
\* ReplayActor

\* self.replay_actors: num_replay_buffer_shards actors.
Shards == 1..num_replay_buffer_shards

\* ReplayActor.__init__: the per-shard thresholds.
replay_starts == learning_starts \div num_replay_buffer_shards
shard_buffer_size == buffer_size \div num_replay_buffer_shards

\* ReplayActor.add_batch: count rows appended to the ring of one shard.
add_batch(len, count) == Min(len + count, shard_buffer_size)

\* replay_buffer.sample on an empty buffer: there is no index to draw, the
\* call raises.  Written as the batch of the index no buffer has.
SampleFails == <<Fail>>

\* ReplayActor.replay on an actor built with the threshold starts and the
\* batch size n: the results one call can return for a buffer length, as the
\* batch_indexes of the returned batch.
replay_on(starts, n, len) ==
    IF len < starts
    THEN {None}
    ELSE IF len = 0 THEN {SampleFails}
    ELSE [1..n -> 0..(len - 1)]

\* ReplayActor.replay with the model's configuration.
replay(len) == replay_on(replay_starts, train_batch_size, len)

\* compute_apply(replay)["td_error"]: one error per row of the batch.
td_error_of(batch) == [k \in DOMAIN batch |-> batch[k] + 1]

----------------------------------------------------------------------------
\* TaskPool

\* TaskPool.add: one more outstanding call, remembered with its actor.
TaskPoolAdd(pool, task) == pool (+) SetToBag({task})

\* A yielded task kept in the pool.
TaskPoolPop_Mut(pool, task) == pool

\* TaskPool.completed yielding a task: it leaves the pool.
TaskPoolPop(pool, task) == pool (-) SetToBag({task})

\* The outstanding sample calls of worker ev.
InFlight(ev) == CopiesIn(ev, sample_tasks)

\* The outstanding replay calls of shard ra.
ReplayInFlight(ra) ==
    LET mine == {t \in BagToSet(replay_tasks) : t[1] = ra}
        RECURSIVE Sum(_)
        Sum(S) == IF S = {} THEN 0
                  ELSE LET t == CHOOSE x \in S : TRUE
                       IN CopiesIn(t, replay_tasks) + Sum(S \ {t})
    IN Sum(mine)

\* The bag of (ev, result) pairs for r[ev] = results of ev's finished calls.
CompletedBag(r) ==
    LET D == UNION {{<<w, r[w][i]>> : i \in DOMAIN r[w]} : w \in DOMAIN r}
    IN [p \in D |-> Cardinality({i \in DOMAIN r[p[1]] : r[p[1]][i] = p[2]})]

\* REPLAY_QUEUE_DEPTH requests to every shard, issued by _init on empty
\* buffers: each has the result replay() gives on an empty buffer.
InitialReplayTasks ==
    [t \in {<<ra, result>> : ra \in Shards, result \in replay(0)}
        |-> REPLAY_QUEUE_DEPTH]

----------------------------------------------------------------------------
\* State after AsyncReplayOptimizer._init, called without remote evaluators.

\* `weights = None` of _step; a snapshot is the number of its capture within
\* the tick, whether it is a consistent copy of the local model, and the
\* tick that captured it.
NoWeights == [id |-> 0, intact |-> TRUE, tick |-> 0]
NoItem == << >>
NoWorker == 0

\* The optimizer built with the arguments given.
InitOptimizerWith(shards, starts, size) ==
    /\ num_replay_buffer_shards = shards
    /\ learning_starts = starts
    /\ buffer_size = size
    /\ remote_evaluators = {}
    /\ max_weight_sync_delay \in Delays
    /\ steps_since_update = [w \in {} |-> 0]
    /\ num_weight_syncs = 0
    /\ learning_started = FALSE
    /\ num_steps_sampled = 0
    /\ num_steps_trained = 0
    /\ sample_tasks = EmptyBag
    /\ replay_tasks = InitialReplayTasks
    /\ cpc = "idle"
    /\ completed = EmptyBag
    /\ ev_cur = NoWorker
    /\ weights = NoWeights
    /\ ready = EmptyBag
    /\ samples = NoItem
    /\ sample_timesteps = 0
    /\ train_timesteps = 0
    /\ inqueue = << >>
    /\ outqueue = << >>
    /\ weights_updated = FALSE
    /\ lpc = "get"
    /\ cur = NoItem
    /\ buffer_len = [ra \in Shards |-> 0]
    /\ update_calls = [ra \in Shards |-> 0]
    /\ last_update = NoItem
    /\ ticks = 0
    /\ raised = FALSE
    /\ captures = 0
    /\ syncs = [w \in Workers |-> 0]
    /\ due = [w \in Workers |-> 0]
    /\ pushed = {}
    /\ flags = 0
    /\ torn = FALSE
    /\ out_puts = 0
    /\ in_log = << >>
    /\ out_log = << >>
    /\ counted_sampled = 0
    /\ counted_trained = 0
    /\ sent = << >>

\* The instance of one shard that a single transition fills and warms.
InitOptimizer == InitOptimizerWith(1, 1, 1)

\* self.replay_actors of the optimizer that saves and restores, by list index.
replay_actors == 0..(NumReplayActors - 1)

\* Empty shards and no save or restore under way.
NoCheckpoint ==
    /\ storage = [ra \in replay_actors |-> << >>]
    /\ next_idx = [ra \in replay_actors |-> 0]
    /\ it_sum = [ra \in replay_actors |-> << >>]
    /\ file = << >>
    /\ exported = << >>
    /\ ck_pc = "run"
    /\ num_samples = [ra \in replay_actors |-> 0]
    /\ start_indices = [ra \in replay_actors |-> 0]
    /\ get_data_tasks = {}
    /\ lines_read = 0
    /\ rows = << >>
    /\ ra_idx = 0
    /\ exports = 0
    /\ get_calls = [ra \in replay_actors |-> << >>]
    /\ add_calls = << >>

\* A TaskPool with no call added.
NoTaskPool ==
    /\ tp_tasks = EmptyBag
    /\ tp_finished = {}
    /\ tp_ready = {}
    /\ tp_added = << >>
    /\ tp_yielded = << >>

\* No call made yet on a ReplayActor.
NoCall == <<"none">>

\* A ReplayActor built with the model's configuration, empty.
NoActor ==
    /\ actor_replay_starts = replay_starts
    /\ actor_train_batch_size = train_batch_size
    /\ actor_eps = prioritized_replay_eps
    /\ actor_priorities = << >>
    /\ actor_next_idx = 0
    /\ actor_max_priority = max_priority
    /\ actor_call = NoCall

\* No DDPGEvaluator is looked at.
NoEvaluator ==
    /\ cfg_sample_batch_size = sample_batch_size
    /\ cfg_n_step = 1
    /\ cfg_gamma = 1
    /\ self_obs = 0
    /\ local_timestep = 0
    /\ built = None
    /\ assert_failed = FALSE
    /\ collected = << >>
    /\ sample_calls = 0
    /\ restore_calls = 0
    /\ env_obs = 0

\* A replay shard with an empty buffer and no request served.
NoRing ==
    /\ ring_storage = << >>
    /\ ring_next_idx = 0
    /\ ring_added = 0
    /\ ring_pending = EmptyBag
    /\ ring_update = None

Init ==
    /\ InitOptimizer
    /\ NoCheckpoint
    /\ NoTaskPool
    /\ NoActor
    /\ NoEvaluator
    /\ NoRing

----------------------------------------------------------------------------
\* AsyncReplayOptimizer.set_evaluators

outsideTraining ==
    <<ckptVars, taskPoolVars, actorVars, evaluatorVars, ringVars>>

\* The bag of SAMPLE_QUEUE_DEPTH sample_with_count requests per worker.
InitialSampleTasks(evs) == [ev \in evs |-> SAMPLE_QUEUE_DEPTH]

\* A remote call: the actor it is sent to and the method.
RemoteCall(actor, method) == [to |-> actor, method |-> method]

\* The body of the loop of set_evaluators for one worker: set_weights, then
\* SAMPLE_QUEUE_DEPTH sampling requests.
RegisterCalls(ev) ==
    <<RemoteCall(ev, "set_weights")>> \o
    [k \in 1..SAMPLE_QUEUE_DEPTH |-> RemoteCall(ev, "sample_with_count")]

\* The calls of set_evaluators for the workers 1..n, in list order.
RECURSIVE RegisterAll(_)
RegisterAll(n) ==
    IF n = 0 THEN << >> ELSE RegisterAll(n - 1) \o RegisterCalls(n)

set_evaluators ==
    /\ cpc = "idle"
    /\ sent' = RegisterAll(NumWorkers)
    /\ remote_evaluators = {}
    /\ remote_evaluators' = Workers
    /\ steps_since_update' = [ev \in Workers |-> 0]
    /\ sample_tasks' = sample_tasks (+) InitialSampleTasks(Workers)
    /\ UNCHANGED outsideTraining
    /\ UNCHANGED configVars
    /\ UNCHANGED <<counted_sampled, counted_trained>>
    /\ UNCHANGED <<in_log, out_log>>
    /\ UNCHANGED <<max_weight_sync_delay, num_weight_syncs, learning_started,
                   num_steps_sampled, num_steps_trained, replay_tasks, cpc,
                   stepLocals, learnerVars, shardVars, ticks, raised,
                   tickGhost, torn, out_puts>>

----------------------------------------------------------------------------
\* AsyncReplayOptimizer.step / _step, sample-completion phase

\* The workers of the drained calls, as a bag.
DrainedBag(r) == [w \in {v \in DOMAIN r : r[v] # << >>} |-> Len(r[w])]

\* ray.get(counts) raises when one of the fetched calls failed.
GetRaises(r) == \E w \in DOMAIN r : \E i \in DOMAIN r[w] : r[w][i] = Fail

\* step() begins: _step drains the finished sample calls and fetches their
\* counts.  r[ev] lists the results of the calls of ev that ray.wait reports.
\* When the fetch raises, the exception leaves _step and step(): the
\* coordinator's run ends there (position "raised").
StepSampleDrain(max_ticks) ==
    /\ cpc = "idle"
    /\ remote_evaluators # {}
    /\ ticks < max_ticks
    /\ \E r \in [remote_evaluators ->
                   SeqsUpTo(SampleResults, SAMPLE_QUEUE_DEPTH)] :
         /\ \A w \in remote_evaluators : Len(r[w]) <= InFlight(w)
         /\ sample_tasks' = sample_tasks (-) DrainedBag(r)
         /\ IF GetRaises(r)
            THEN /\ raised' = TRUE
                 /\ cpc' = "raised"
                 /\ UNCHANGED completed
            ELSE /\ cpc' = "sample"
                 /\ completed' = CompletedBag(r)
                 /\ UNCHANGED raised
    /\ ticks' = ticks + 1
    /\ UNCHANGED outsideTraining
    /\ UNCHANGED configVars
    /\ UNCHANGED sent
    /\ UNCHANGED <<counted_sampled, counted_trained>>
    /\ UNCHANGED <<in_log, out_log>>
    /\ UNCHANGED <<optVars, replay_tasks, ev_cur, weights, ready, samples,
                   sample_timesteps, train_timesteps, learnerVars, shardVars,
                   tickGhost, torn, out_puts>>

\* The threshold compared strictly.
NeedsSync_Mut(steps) == steps > max_weight_sync_delay

\* `self.steps_since_update[ev] >= self.max_weight_sync_delay`
NeedsSync(steps) == steps >= max_weight_sync_delay

\* A capture for every sync.
NeedsCapture_Mut == TRUE

\* `weights is None or self.learner.weights_updated`
NeedsCapture == weights = NoWeights \/ weights_updated

\* The replacement request forgotten.
SampleReplacement_Mut(ev) == sample_tasks

\* `self.sample_tasks.add(ev, ev.sample_with_count.remote())`, the last
\* statement of an iteration.
SampleReplacement(ev) == TaskPoolAdd(sample_tasks, ev)

\* ev.set_weights.remote(weights), num_weight_syncs += 1 and the reset of
\* the worker's counter.
PushWeights(ev, w) ==
    /\ num_weight_syncs' = num_weight_syncs + 1
    /\ steps_since_update' = [steps_since_update EXCEPT ![ev] = 0]
    /\ syncs' = [syncs EXCEPT ![ev] = @ + 1]
    /\ pushed' = pushed \cup {w}

\* The replacement request issued ahead of the weights.
AfterRouting_Mut(ev, sync) ==
    IF sync
    THEN <<RemoteCall(ev, "sample_with_count"), RemoteCall(ev, "set_weights")>>
    ELSE <<RemoteCall(ev, "sample_with_count")>>

\* The calls to worker ev that follow the add_batch of its completion:
\* set_weights when a sync is due, then the replacement request.
AfterRouting(ev, sync) ==
    IF sync
    THEN <<RemoteCall(ev, "set_weights"), RemoteCall(ev, "sample_with_count")>>
    ELSE <<RemoteCall(ev, "sample_with_count")>>

\* One iteration of the loop over `completed`.
SampleProcess ==
    /\ cpc = "sample"
    /\ \E c \in BagToSet(completed), ra \in Shards :
        LET ev == c[1]
            count == c[2]
            steps == steps_since_update[ev] + count
        IN
        /\ completed' = completed (-) SetToBag({c})
        /\ sample_timesteps' = sample_timesteps + count
        /\ counted_sampled' = counted_sampled + count
        /\ buffer_len' = [buffer_len EXCEPT ![ra] = add_batch(@, count)]
        /\ due' = [due EXCEPT
                     ![ev] = IF steps_since_update[ev] + count
                                  >= max_weight_sync_delay
                             THEN @ + 1 ELSE @]
        /\ IF NeedsSync(steps)
           THEN IF NeedsCapture
                THEN /\ weights_updated' = FALSE
                     /\ cpc' = "get_weights"
                     /\ sent' = <<RemoteCall(ra, "add_batch")>>
                     /\ ev_cur' = ev
                     /\ torn' = (lpc = "train")
                     /\ steps_since_update' =
                            [steps_since_update EXCEPT ![ev] = steps]
                     /\ UNCHANGED <<num_weight_syncs, sample_tasks, syncs,
                                    pushed>>
                ELSE /\ PushWeights(ev, weights)
                     /\ sample_tasks' = SampleReplacement(ev)
                     /\ sent' = <<RemoteCall(ra, "add_batch")>> \o
                                AfterRouting(ev, TRUE)
                     /\ UNCHANGED <<weights_updated, cpc, ev_cur, torn>>
           ELSE /\ steps_since_update' =
                       [steps_since_update EXCEPT ![ev] = steps]
                /\ sample_tasks' = SampleReplacement(ev)
                /\ sent' = <<RemoteCall(ra, "add_batch")>> \o
                           AfterRouting(ev, FALSE)
                /\ UNCHANGED <<num_weight_syncs, weights_updated, cpc, ev_cur,
                               torn, syncs, pushed>>
    /\ UNCHANGED outsideTraining
    /\ UNCHANGED configVars
    /\ UNCHANGED <<counted_trained>>
    /\ UNCHANGED <<in_log, out_log>>
    /\ UNCHANGED <<remote_evaluators, max_weight_sync_delay, learning_started,
                   num_steps_sampled, num_steps_trained, replay_tasks,
                   weights, ready, samples, train_timesteps, inqueue,
                   outqueue, lpc, cur, update_calls, last_update, ticks,
                   raised, captures, flags, out_puts>>

\* The object ray.put(self.local_evaluator.get_weights()) gives in the
\* running tick.
Snapshot(id, ok) == [id |-> id, intact |-> ok, tick |-> ticks]

\* ray.put(self.local_evaluator.get_weights()) returns; the snapshot is
\* pushed to the worker that needed it.  A capture that overlapped a
\* compute_apply of the learner thread may be an inconsistent copy.
GetWeights ==
    /\ cpc = "get_weights"
    /\ \E ok \in (IF torn THEN BOOLEAN ELSE {TRUE}) :
         /\ weights' = Snapshot(captures + 1, ok)
         /\ PushWeights(ev_cur, Snapshot(captures + 1, ok))
    /\ sample_tasks' = SampleReplacement(ev_cur)
    /\ sent' = sent \o AfterRouting(ev_cur, TRUE)
    /\ captures' = captures + 1
    /\ torn' = FALSE
    /\ ev_cur' = NoWorker
    /\ cpc' = "sample"
    /\ UNCHANGED outsideTraining
    /\ UNCHANGED configVars
    /\ UNCHANGED <<counted_sampled, counted_trained>>
    /\ UNCHANGED <<in_log, out_log>>
    /\ UNCHANGED <<remote_evaluators, max_weight_sync_delay, learning_started,
                   num_steps_sampled, num_steps_trained, replay_tasks,
                   completed, ready, samples, sample_timesteps,
                   train_timesteps, learnerVars, shardVars, ticks, raised,
                   due, flags, out_puts>>

----------------------------------------------------------------------------
\* _step, replay-completion phase

\* The local of the previous call kept.
LocalWeights_Mut(previous) == previous

\* `weights = None`: the local `weights` of a call of _step starts as None,
\* whatever the previous call left in it.
LocalWeights(previous) == NoWeights

\* The sample loop is over; replay_tasks.completed() starts and ray.wait
\* fixes the finished replay calls this tick will retrieve.  The local
\* `weights` is not read after the loop, and the per-tick bookkeeping of the
\* weight syncs is closed here.
ReplayDrain ==
    /\ cpc = "sample"
    /\ completed = EmptyBag
    /\ \E b \in SubBag(replay_tasks) : ready' = b
    /\ cpc' = "replay"
    /\ weights' = LocalWeights(weights)
    /\ sent' = << >>
    /\ captures' = 0
    /\ syncs' = [w \in Workers |-> 0]
    /\ due' = [w \in Workers |-> 0]
    /\ pushed' = {}
    /\ flags' = 0
    /\ UNCHANGED outsideTraining
    /\ UNCHANGED configVars
    /\ UNCHANGED <<counted_sampled, counted_trained>>
    /\ UNCHANGED <<in_log, out_log>>
    /\ UNCHANGED <<optVars, poolVars, completed, ev_cur, samples,
                   sample_timesteps, train_timesteps, learnerVars, shardVars,
                   ticks, raised, torn, out_puts>>

\* The retrieved replay call not replaced.
Resubmit_Mut(pool, ra, result) == pool

\* `self.replay_tasks.add(ra, ra.replay.remote())`: the new request's result
\* is the one replay() computes on the shard's buffer as it is now.
Resubmit(pool, ra, result) == TaskPoolAdd(pool, <<ra, result>>)

\* An iteration that looks at the pool again: the new call joins the calls
\* still to be yielded.
Remaining_Mut(rest, t, new) == (rest (-) SetToBag({t})) (+) SetToBag({new})

\* The calls the running completed() iteration still has to yield after
\* yielding t: the wait was done once, the call added meanwhile is not
\* among them.
Remaining(rest, t, new) == rest (-) SetToBag({t})

\* One iteration of the loop over the finished replay calls, up to the
\* blocking put: the call is yielded, a new one is submitted, the result
\* fetched.
ReplayNext ==
    /\ cpc = "replay"
    /\ \E t \in BagToSet(ready) :
         /\ \E result \in replay(buffer_len[t[1]]) :
              /\ replay_tasks' =
                     Resubmit(TaskPoolPop(replay_tasks, t), t[1], result)
              /\ ready' = Remaining(ready, t, <<t[1], result>>)
         /\ samples' = t
    /\ cpc' = "put"
    /\ UNCHANGED outsideTraining
    /\ UNCHANGED configVars
    /\ UNCHANGED sent
    /\ UNCHANGED <<counted_sampled, counted_trained>>
    /\ UNCHANGED <<in_log, out_log>>
    /\ UNCHANGED <<optVars, sample_tasks, completed, ev_cur, weights,
                   sample_timesteps, train_timesteps, learnerVars, shardVars,
                   ticks, raised, tickGhost, torn, out_puts>>

\* A queue created without its maxsize.
QueueHasRoom_Mut(q, n) == TRUE

\* queue.Queue.put on a queue of maxsize n: possible only below n items.
QueueHasRoom(q, n) == Len(q) < n

\* `self.learner.inqueue.put((ra, samples))`, blocking while the queue is full.
InqueuePut ==
    /\ cpc = "put"
    /\ QueueHasRoom(inqueue, LEARNER_QUEUE_MAX_SIZE)
    /\ inqueue' = Append(inqueue, samples)
    /\ samples' = NoItem
    /\ cpc' = "replay"
    /\ UNCHANGED outsideTraining
    /\ UNCHANGED configVars
    /\ UNCHANGED sent
    /\ UNCHANGED <<counted_sampled, counted_trained>>
    /\ UNCHANGED <<in_log, out_log>>
    /\ UNCHANGED <<optVars, poolVars, completed, ev_cur, weights, ready,
                   sample_timesteps, train_timesteps, outqueue,
                   weights_updated, lpc, cur, shardVars, ticks, raised,
                   tickGhost, torn, out_puts>>

\* The loop over the finished replay calls is exhausted.
ReplayDone ==
    /\ cpc = "replay"
    /\ ready = EmptyBag
    /\ cpc' = "prio"
    /\ UNCHANGED outsideTraining
    /\ UNCHANGED configVars
    /\ UNCHANGED sent
    /\ UNCHANGED <<counted_sampled, counted_trained>>
    /\ UNCHANGED <<in_log, out_log>>
    /\ UNCHANGED <<optVars, poolVars, stepLocals, learnerVars, shardVars,
                   ticks, raised, tickGhost, torn, out_puts>>

----------------------------------------------------------------------------
\* _step, priority-feedback phase, and the return to step()

\* A queue never reported empty.
empty_Mut(q) == FALSE

\* queue.Queue.empty
empty(q) == q = << >>

\* `while not self.learner.outqueue.empty()` finds an item.
OutqueueNotEmpty ==
    /\ cpc = "prio"
    /\ ~empty(outqueue)
    /\ cpc' = "prio_get"
    /\ UNCHANGED outsideTraining
    /\ UNCHANGED configVars
    /\ UNCHANGED sent
    /\ UNCHANGED <<counted_sampled, counted_trained>>
    /\ UNCHANGED <<in_log, out_log>>
    /\ UNCHANGED <<optVars, poolVars, stepLocals, learnerVars, shardVars,
                   ticks, raised, tickGhost, torn, out_puts>>

\* The call sent to the first of the replay actors, whatever shard the item
\* names.
PriorityCall_Mut(item) == <<1, item[2], item[3]>>

\* The update_priorities call the coordinator issues for an outbound item.
PriorityCall(item) == <<item[1], item[2], item[3]>>

\* `outqueue.get()` and the update_priorities call for the item.
OutqueueGet ==
    /\ cpc = "prio_get"
    /\ outqueue # << >>
    /\ LET item == Head(outqueue)
           call == PriorityCall(item)
       IN /\ outqueue' = Tail(outqueue)
          /\ last_update' = call
          /\ update_calls' = [update_calls EXCEPT ![call[1]] = @ + 1]
          /\ train_timesteps' = train_timesteps + item[4]
          /\ counted_trained' = counted_trained + item[4]
    /\ cpc' = "prio"
    /\ UNCHANGED outsideTraining
    /\ UNCHANGED configVars
    /\ UNCHANGED sent
    /\ UNCHANGED <<counted_sampled>>
    /\ UNCHANGED <<in_log, out_log>>
    /\ UNCHANGED <<optVars, poolVars, completed, ev_cur, weights, ready,
                   samples, sample_timesteps, inqueue, weights_updated, lpc,
                   cur, buffer_len, ticks, raised, tickGhost, torn, out_puts>>

\* The counter overwritten with the tick's count.
AddSteps_Mut(total, timesteps) == timesteps

\* `self.num_steps_sampled += sample_timesteps` and
\* `self.num_steps_trained += train_timesteps`
AddSteps(total, timesteps) == total + timesteps

\* The while loop finds the outbound queue empty; _step returns and step()
\* adds the tick's counts to the global counters.
StepReturn ==
    /\ cpc = "prio"
    /\ empty(outqueue)
    /\ learning_started' = (learning_started \/ train_timesteps > 0)
    /\ num_steps_sampled' = AddSteps(num_steps_sampled, sample_timesteps)
    /\ num_steps_trained' = AddSteps(num_steps_trained, train_timesteps)
    /\ sample_timesteps' = 0
    /\ train_timesteps' = 0
    /\ cpc' = "idle"
    /\ UNCHANGED outsideTraining
    /\ UNCHANGED configVars
    /\ UNCHANGED sent
    /\ UNCHANGED <<counted_sampled, counted_trained>>
    /\ UNCHANGED <<in_log, out_log>>
    /\ UNCHANGED <<remote_evaluators, max_weight_sync_delay,
                   steps_since_update, num_weight_syncs, poolVars, completed,
                   ev_cur, weights, ready, samples, learnerVars, shardVars,
                   ticks, raised, tickGhost, torn, out_puts>>

----------------------------------------------------------------------------
\* LearnerThread.step

\* The test of the batch left out.
IsBatch_Mut(batch) == TRUE

\* `replay is not None`
IsBatch(batch) == batch # None

\* `ra, replay = self.inqueue.get()`, blocking while the queue is empty, and
\* the test of the batch.
LearnerGet ==
    /\ lpc = "get"
    /\ inqueue # << >>
    /\ cur' = Head(inqueue)
    /\ inqueue' = Tail(inqueue)
    /\ lpc' = IF IsBatch(Head(inqueue)[2]) THEN "train" ELSE "flag"
    /\ torn' = (torn \/ (cpc = "get_weights" /\ lpc' = "train"))
    /\ UNCHANGED outsideTraining
    /\ UNCHANGED configVars
    /\ UNCHANGED sent
    /\ UNCHANGED <<counted_sampled, counted_trained>>
    /\ UNCHANGED <<in_log, out_log>>
    /\ UNCHANGED <<optVars, poolVars, cpc, stepLocals, outqueue,
                   weights_updated, shardVars, ticks, raised, tickGhost,
                   out_puts>>

\* The tuple without the size of its batch.
OutItem_Mut(ra, batch) == <<ra, batch, td_error_of(batch), 0>>

\* The tuple LearnerThread.step puts on the outbound queue.
OutItem(ra, batch) == <<ra, batch, td_error_of(batch), Len(batch)>>

\* The outbound queue created with the bound of the inbound one.
OutqueueHasRoom_Mut(q) == Len(q) < LEARNER_QUEUE_MAX_SIZE

\* queue.Queue.put on `self.outqueue = queue.Queue()`: no maxsize, always
\* possible.
OutqueueHasRoom(q) == TRUE

\* compute_apply returns and the result goes to the (unbounded) outqueue.
LearnerTrain ==
    /\ lpc = "train"
    /\ OutqueueHasRoom(outqueue)
    /\ outqueue' = Append(outqueue, OutItem(cur[1], cur[2]))
    /\ out_puts' = out_puts + 1
    /\ out_log' = Append(out_log, OutItem(cur[1], cur[2]))
    /\ lpc' = "flag"
    /\ UNCHANGED outsideTraining
    /\ UNCHANGED configVars
    /\ UNCHANGED sent
    /\ UNCHANGED <<counted_sampled, counted_trained>>
    /\ UNCHANGED <<in_log>>
    /\ UNCHANGED <<optVars, poolVars, cpc, stepLocals, inqueue,
                   weights_updated, cur, shardVars, ticks, raised, tickGhost,
                   torn>>

\* `self.weights_updated = True`, the last statement of step().
LearnerFlag ==
    /\ lpc = "flag"
    /\ weights_updated' = TRUE
    /\ cur' = NoItem
    /\ lpc' = "get"
    /\ flags' = IF cpc \in {"sample", "get_weights"} THEN flags + 1 ELSE flags
    /\ UNCHANGED outsideTraining
    /\ UNCHANGED configVars
    /\ UNCHANGED sent
    /\ UNCHANGED <<counted_sampled, counted_trained>>
    /\ UNCHANGED <<in_log, out_log>>
    /\ UNCHANGED <<optVars, poolVars, cpc, stepLocals, inqueue, outqueue,
                   shardVars, ticks, raised, captures, syncs, due, pushed,
                   torn, out_puts>>

----------------------------------------------------------------------------
Next ==
    \/ set_evaluators
    \/ StepSampleDrain(MaxTicks)
    \/ SampleProcess
    \/ GetWeights
    \/ ReplayDrain
    \/ ReplayNext
    \/ InqueuePut
    \/ ReplayDone
    \/ OutqueueNotEmpty
    \/ OutqueueGet
    \/ StepReturn
    \/ LearnerGet
    \/ LearnerTrain
    \/ LearnerFlag

Spec == Init /\ [][Next]_vars

\* The same program run for one more tick: a batch requested after the
\* buffers are warm is then being trained on while a later tick runs.
NextLong ==
    \/ set_evaluators
    \/ StepSampleDrain(MaxTicks + 1)
    \/ SampleProcess
    \/ GetWeights
    \/ ReplayDrain
    \/ ReplayNext
    \/ InqueuePut
    \/ ReplayDone
    \/ OutqueueNotEmpty
    \/ OutqueueGet
    \/ StepReturn
    \/ LearnerGet
    \/ LearnerTrain
    \/ LearnerFlag

SpecLong == Init /\ [][NextLong]_vars

\* Both threads keep running: a step of step() or of LearnerThread.run that
\* can be taken is taken.  Calling step() again is left to the caller.
Fairness ==
    /\ WF_vars(SampleProcess)
    /\ WF_vars(GetWeights)
    /\ WF_vars(ReplayDrain)
    /\ WF_vars(ReplayNext)
    /\ WF_vars(InqueuePut)
    /\ WF_vars(ReplayDone)
    /\ WF_vars(OutqueueNotEmpty)
    /\ WF_vars(OutqueueGet)
    /\ WF_vars(StepReturn)
    /\ WF_vars(LearnerGet)
    /\ WF_vars(LearnerTrain)
    /\ WF_vars(LearnerFlag)

SpecFair == Init /\ [][Next]_vars /\ Fairness

----------------------------------------------------------------------------
\* LearnerThread taken on its own: a producer puts pairs of a shard and a
\* batch or None on the inbound queue, the thread runs step() in a loop.

\* Shards and batches the producer draws its pairs from.
FedPairs ==
    (1..MaxShards) \X
        ({None} \cup [1..train_batch_size -> 0..(ActorCapacity - 1)])

\* `inqueue.put((ra, replay))` by the producer, waiting while the queue is
\* full.
Feed ==
    /\ Len(in_log) < MaxFeed
    /\ QueueHasRoom(inqueue, LEARNER_QUEUE_MAX_SIZE)
    /\ \E pair \in FedPairs :
          /\ inqueue' = Append(inqueue, pair)
          /\ in_log' = Append(in_log, pair)
    /\ UNCHANGED <<optVars, poolVars, cpc, stepLocals, outqueue,
                   weights_updated, lpc, cur, shardVars, ticks, raised,
                   tickGhost, torn, out_puts, out_log>>
    /\ UNCHANGED outsideTraining
    /\ UNCHANGED configVars
    /\ UNCHANGED sent
    /\ UNCHANGED <<counted_sampled, counted_trained>>

NextLearner ==
    \/ Feed
    \/ LearnerGet
    \/ LearnerTrain
    \/ LearnerFlag

SpecLearner == Init /\ [][NextLearner]_vars

----------------------------------------------------------------------------
\* The same program on an optimizer of MaxShards shards of ActorCapacity
\* slots each, a shard being warm from its first add_batch on.

\* State after _init of that optimizer.
InitShardsCold ==
    /\ InitOptimizerWith(MaxShards, MaxShards, MaxShards * ActorCapacity)
    /\ NoCheckpoint
    /\ NoTaskPool
    /\ NoActor
    /\ NoEvaluator
    /\ NoRing

SpecShardsCold == InitShardsCold /\ [][Next]_vars

\* The replay calls outstanding after a tick that retrieved all the calls
\* of _init and replaced them on warm shards: REPLAY_QUEUE_DEPTH of every
\* shard, those of a shard having all drawn the same slot, and the shards
\* different slots.
WarmReplayTasks ==
    [t \in {<<ra, [k \in 1..train_batch_size |-> ra % ActorCapacity]>> :
                ra \in Shards}
        |-> REPLAY_QUEUE_DEPTH]

\* A state of SpecShardsCold between its first and its second tick.  The
\* threshold of the weight syncs is sample_batch_size; set_evaluators was
\* called; the first tick found one finished sample call of every worker,
\* sent the batch of worker w to shard w and the weights to the worker,
\* retrieved all the replay calls of _init, which gave None, and replaced
\* each by a call on the shard now warm; the learner thread has taken all
\* the pairs off the inbound queue.
InitShards ==
    /\ num_replay_buffer_shards = MaxShards
    /\ learning_starts = MaxShards
    /\ buffer_size = MaxShards * ActorCapacity
    /\ remote_evaluators = Workers
    /\ max_weight_sync_delay = sample_batch_size
    /\ steps_since_update = [ev \in Workers |-> 0]
    /\ num_weight_syncs = NumWorkers
    /\ learning_started = FALSE
    /\ num_steps_sampled = NumWorkers * sample_batch_size
    /\ num_steps_trained = 0
    /\ sample_tasks = InitialSampleTasks(Workers)
    /\ replay_tasks = WarmReplayTasks
    /\ cpc = "idle"
    /\ completed = EmptyBag
    /\ ev_cur = NoWorker
    /\ weights = NoWeights
    /\ ready = EmptyBag
    /\ samples = NoItem
    /\ sample_timesteps = 0
    /\ train_timesteps = 0
    /\ inqueue = << >>
    /\ outqueue = << >>
    /\ weights_updated = TRUE
    /\ lpc = "get"
    /\ cur = NoItem
    /\ buffer_len = [ra \in Shards |-> ActorCapacity]
    /\ update_calls = [ra \in Shards |-> 0]
    /\ last_update = NoItem
    /\ ticks = 1
    /\ raised = FALSE
    /\ captures = 0
    /\ syncs = [w \in Workers |-> 0]
    /\ due = [w \in Workers |-> 0]
    /\ pushed = {}
    /\ flags = 0
    /\ torn = FALSE
    /\ out_puts = 0
    /\ in_log = << >>
    /\ out_log = << >>
    /\ counted_sampled = NumWorkers * sample_batch_size
    /\ counted_trained = 0
    /\ sent = << >>
    /\ NoCheckpoint
    /\ NoTaskPool
    /\ NoActor
    /\ NoEvaluator
    /\ NoRing

\* The ticks that follow: set_evaluators is not called again.
NextShards ==
    \/ StepSampleDrain(MaxTicks)
    \/ SampleProcess
    \/ GetWeights
    \/ ReplayDrain
    \/ ReplayNext
    \/ InqueuePut
    \/ ReplayDone
    \/ OutqueueNotEmpty
    \/ OutqueueGet
    \/ StepReturn
    \/ LearnerGet
    \/ LearnerTrain
    \/ LearnerFlag

SpecShards == InitShards /\ [][NextShards]_vars

----------------------------------------------------------------------------
\* Checkpointing: ReplayActor.get_buffer_length / get_data and
\* AsyncReplayOptimizer.save / restore, called between ticks on an optimizer
\* with the shards replay_actors.  The training variables play no part.

trainVars == <<configVars, optVars, poolVars, cpc, stepLocals, learnerVars, shardVars,
               ticks, raised, tickGhost, torn, out_puts, in_log, out_log,
               counted_sampled, counted_trained, sent>>

outsideCheckpoint ==
    <<trainVars, taskPoolVars, actorVars, evaluatorVars, ringVars>>

\* Numbers a column of the file holds.
Values == 0..(MaxStored + 1)

\* str() of a number, as str(v) and the "%s" of ops.write produce it.
str(v) == ToString(v)

\* str() of a done flag.
str_done(b) == IF b THEN "True" ELSE "False"

\* float() of the text of a number.
float(s) == CHOOSE v \in Values : ToString(v) = s

\* bool() of a string: any string but the empty one is true.
bool(s) == s # ""

\* ','.join([str(v) for v in vec]), kept as the sequence of joined texts.
join(vec) == [k \in DOMAIN vec |-> str(vec[k])]

\* [float(v) for v in col.split(',')]
split(col) == [k \in DOMAIN col |-> float(col[k])]

\* replay_buffer.add on the buffer b = [storage, next_idx, it_sum]: write at
\* the cursor, advance it modulo the capacity, set the leaf of the sum tree.
BufferAdd(b, row) ==
    LET idx == b.next_idx
        data == [obs |-> row.obs, actions |-> row.actions,
                 rewards |-> row.rewards, new_obs |-> row.new_obs,
                 dones |-> row.dones]
    IN  [storage |-> IF idx >= Len(b.storage)
                        THEN Append(b.storage, data)
                        ELSE [b.storage EXCEPT ![idx + 1] = data],
         next_idx |-> (idx + 1) % ShardCapacity,
         it_sum |-> IF idx >= Len(b.it_sum)
                       THEN Append(b.it_sum, max_priority)
                       ELSE [b.it_sum EXCEPT ![idx + 1] = max_priority]]

\* ReplayActor.add_batch on a buffer: replay_buffer.add for each row in order.
RECURSIVE AddRows(_, _)
AddRows(b, batch) ==
    IF batch = << >> THEN b
    ELSE AddRows(BufferAdd(b, Head(batch)), Tail(batch))

\* ReplayActor.get_buffer_length
get_buffer_length(ra) == Len(storage[ra])

\* ReplayActor.get_data: the transitions start_idx .. start_idx+batch_size-1
\* with the leaves of the sum tree divided by alpha as their weights.
get_data(ra, start_idx, batch_size) ==
    [j \in 1..batch_size |->
        [obs |-> storage[ra][start_idx + j].obs,
         actions |-> storage[ra][start_idx + j].actions,
         rewards |-> storage[ra][start_idx + j].rewards,
         new_obs |-> storage[ra][start_idx + j].new_obs,
         dones |-> storage[ra][start_idx + j].dones,
         weights |-> it_sum[ra][start_idx + j] \div prioritized_replay_alpha]]

\* The line save() writes for one exported transition, as its six columns.
Line(row) ==
    <<join(row.obs), join(row.actions), str(row.rewards), join(row.new_obs),
      str_done(row.dones), str(row.weights)>>

\* What restore() reads from the columns of one line.
ParseLine(cols) ==
    [obs |-> split(cols[1]), actions |-> split(cols[2]),
     rewards |-> float(cols[3]), new_obs |-> split(cols[4]),
     dones |-> bool(cols[5]), weights |-> float(cols[6])]

\* n transitions a shard holds, all different, one in `period` of them done.
Stored(ra, n, period) ==
    [i \in 1..n |->
        [obs |-> <<ra, i - 1>>, actions |-> <<(i - 1) % 2>>,
         rewards |-> i - 1, new_obs |-> <<ra, i>>,
         dones |-> ((i - 1) % period = 0)]]

\* An optimizer whose shards hold up to MaxStored transitions each.
InitCheckpoint ==
    /\ InitOptimizer
    /\ NoTaskPool
    /\ NoActor
    /\ NoEvaluator
    /\ NoRing
    /\ \E n \in [replay_actors -> 0..MaxStored] : \E period \in 1..MaxPeriod :
          /\ storage = [ra \in replay_actors |-> Stored(ra, n[ra], period)]
          /\ next_idx = [ra \in replay_actors |-> n[ra] % ShardCapacity]
          /\ it_sum = [ra \in replay_actors |->
                          [i \in 1..n[ra] |-> max_priority]]
    /\ file = << >>
    /\ exported = << >>
    /\ ck_pc = "run"
    /\ num_samples = [ra \in replay_actors |-> 0]
    /\ start_indices = [ra \in replay_actors |-> 0]
    /\ get_data_tasks = {}
    /\ lines_read = 0
    /\ rows = << >>
    /\ ra_idx = 0
    /\ exports = 0
    /\ get_calls = [ra \in replay_actors |-> << >>]
    /\ add_calls = << >>

\* The start index moved one too far.
Advance_Mut(start_idx, batch_size) == start_idx + batch_size + 1

\* `start_indices[ra_idx] += batch_size`
Advance(start_idx, batch_size) == start_idx + batch_size

\* save(), up to the first ray.wait: the lengths are fetched and the first
\* get_data request of every non-empty shard is issued.
SaveBegin ==
    /\ ck_pc \in {"run", "restored"}
    /\ LET ns == [ra \in replay_actors |-> get_buffer_length(ra)]
           batch_size == [ra \in replay_actors |-> Min(ns[ra], CHUNK)]
           asked == {ra \in replay_actors : batch_size[ra] > 0}
       IN  /\ num_samples' = ns
           /\ get_data_tasks' = {<<ra, 0, batch_size[ra]>> : ra \in asked}
           /\ start_indices' = [ra \in replay_actors |->
                                   IF ra \in asked
                                      THEN Advance(0, batch_size[ra])
                                      ELSE 0]
           /\ get_calls' = [ra \in replay_actors |->
                               IF ra \in asked THEN <<<<0, batch_size[ra]>>>>
                               ELSE << >>]
    /\ file' = << >>
    /\ ck_pc' = "save"
    /\ UNCHANGED <<storage, next_idx, it_sum, exported, lines_read, rows,
                   ra_idx, exports, add_calls>>
    /\ UNCHANGED outsideCheckpoint

\* One finished get_data request is fetched: its entry is popped, the next
\* request to its shard is issued and its transitions are written.
SaveFetch ==
    /\ ck_pc = "save"
    /\ \E t \in get_data_tasks :
          LET ra == t[1]
              data == get_data(ra, t[2], t[3])
              batch_size == Min(num_samples[ra] - start_indices[ra], CHUNK)
              new == IF batch_size > 0
                        THEN {<<ra, start_indices[ra], batch_size>>} ELSE {}
          IN  /\ get_data_tasks' = (get_data_tasks \ {t}) \cup new
              /\ start_indices' =
                     IF batch_size > 0
                        THEN [start_indices EXCEPT
                                 ![ra] = Advance(@, batch_size)]
                        ELSE start_indices
              /\ get_calls' =
                     IF batch_size > 0
                        THEN [get_calls EXCEPT ![ra] =
                                 Append(@, <<start_indices[ra], batch_size>>)]
                        ELSE get_calls
              /\ file' = file \o [j \in DOMAIN data |-> Line(data[j])]
    /\ UNCHANGED <<storage, next_idx, it_sum, exported, ck_pc, num_samples,
                   lines_read, rows, ra_idx, exports, add_calls>>
    /\ UNCHANGED outsideCheckpoint

\* No request is left: the file is closed and save() returns.
SaveEnd ==
    /\ ck_pc = "save"
    /\ get_data_tasks = {}
    /\ ck_pc' = "saved"
    /\ exports' = exports + 1
    /\ UNCHANGED <<storage, next_idx, it_sum, file, exported, num_samples,
                   start_indices, get_data_tasks, lines_read, rows, ra_idx,
                   get_calls, add_calls>>
    /\ UNCHANGED outsideCheckpoint

\* A fresh optimizer with empty shards opens the saved file in restore().
RestoreBegin ==
    /\ ck_pc = "saved"
    /\ exports = 1
    /\ storage' = [ra \in replay_actors |-> << >>]
    /\ next_idx' = [ra \in replay_actors |-> 0]
    /\ it_sum' = [ra \in replay_actors |-> << >>]
    /\ exported' = file
    /\ lines_read' = 0
    /\ rows' = << >>
    /\ ra_idx' = 0
    /\ add_calls' = << >>
    /\ ck_pc' = "restore"
    /\ UNCHANGED <<file, num_samples, start_indices, get_data_tasks, exports,
                   get_calls>>
    /\ UNCHANGED outsideCheckpoint

\* add_batch.remote(batch) on shard ra; the shard applies its calls in order.
SendBatch(ra, batch) ==
    LET b == AddRows([storage |-> storage[ra], next_idx |-> next_idx[ra],
                      it_sum |-> it_sum[ra]], batch)
    IN  /\ storage' = [storage EXCEPT ![ra] = b.storage]
        /\ next_idx' = [next_idx EXCEPT ![ra] = b.next_idx]
        /\ it_sum' = [it_sum EXCEPT ![ra] = b.it_sum]
        /\ add_calls' = Append(add_calls, <<ra, batch>>)

\* The shard kept for every group.
NextShard_Mut(ra) == ra

\* `ra_idx = (ra_idx+1) % len(self.replay_actors)`
NextShard(ra) == (ra + 1) % NumReplayActors

\* One line of the file is read and parsed; the CHUNK-th row of a group
\* sends the group to the current shard and moves on to the next shard.
RestoreLine ==
    /\ ck_pc = "restore"
    /\ lines_read < Len(file)
    /\ lines_read' = lines_read + 1
    /\ LET batch == Append(rows, ParseLine(file[lines_read + 1]))
       IN  IF Len(batch) = CHUNK
              THEN /\ SendBatch(ra_idx, batch)
                   /\ ra_idx' = NextShard(ra_idx)
                   /\ rows' = << >>
              ELSE /\ rows' = batch
                   /\ UNCHANGED <<storage, next_idx, it_sum, add_calls,
                                  ra_idx>>
    /\ UNCHANGED <<file, exported, ck_pc, num_samples, start_indices,
                   get_data_tasks, exports, get_calls>>
    /\ UNCHANGED outsideCheckpoint

\* The counters a checkpoint's data can hold.
RestoredSteps == 0..MaxRestoredSteps

\* End of file: the rows of a last partial group are sent, and
\* `super().restore(data)` sets the two global counters to those of the
\* data, whatever they are.
RestoreEnd ==
    /\ ck_pc = "restore"
    /\ lines_read = Len(file)
    /\ IF rows # << >>
          THEN SendBatch(ra_idx, rows)
          ELSE UNCHANGED <<storage, next_idx, it_sum, add_calls>>
    /\ \E trained \in RestoredSteps, sampled \in RestoredSteps :
          /\ num_steps_trained' = trained
          /\ num_steps_sampled' = sampled
    /\ ck_pc' = "restored"
    /\ UNCHANGED <<file, exported, num_samples, start_indices, get_data_tasks,
                   lines_read, rows, ra_idx, exports, get_calls>>
    /\ UNCHANGED <<configVars, remote_evaluators, max_weight_sync_delay,
                   steps_since_update, num_weight_syncs, learning_started,
                   poolVars, cpc, stepLocals, learnerVars, shardVars, ticks,
                   raised, tickGhost, torn, out_puts, in_log, out_log,
                   counted_sampled, counted_trained, sent>>
    /\ UNCHANGED <<taskPoolVars, actorVars, evaluatorVars, ringVars>>

NextCheckpoint ==
    \/ SaveBegin
    \/ SaveFetch
    \/ SaveEnd
    \/ RestoreBegin
    \/ RestoreLine
    \/ RestoreEnd

SpecCheckpoint == InitCheckpoint /\ [][NextCheckpoint]_vars

----------------------------------------------------------------------------
\* TaskPool taken on its own: calls are added, finish on their actors in any
\* order, and are retrieved by iterating completed().  A call is the pair
\* of its actor and its object id.

outsideTaskPool ==
    <<trainVars, ckptVars, actorVars, evaluatorVars, ringVars>>

PoolActors == 1..NumPoolActors

\* count: the number of outstanding calls.
TaskPoolCount(pool) == BagCardinality(pool)

\* add(actor, obj_id) with a new object id.
PoolAdd ==
    /\ Len(tp_added) < MaxCalls
    /\ \E actor \in PoolActors :
          /\ tp_tasks' = TaskPoolAdd(tp_tasks, <<actor, Len(tp_added) + 1>>)
          /\ tp_added' = Append(tp_added, actor)
    /\ UNCHANGED <<tp_finished, tp_ready, tp_yielded>>
    /\ UNCHANGED outsideTaskPool

\* An outstanding call finishes on its actor.
PoolCallFinishes ==
    /\ \E t \in BagToSet(tp_tasks) \ tp_finished :
          tp_finished' = tp_finished \cup {t}
    /\ UNCHANGED <<tp_tasks, tp_ready, tp_added, tp_yielded>>
    /\ UNCHANGED outsideTaskPool

\* completed() is called and its iteration started: the wait reports
\* outstanding calls that have finished.
PoolCompleted ==
    /\ tp_ready = {}
    /\ \E r \in SUBSET (BagToSet(tp_tasks) \cap tp_finished) :
          /\ r # {}
          /\ tp_ready' = r
    /\ UNCHANGED <<tp_tasks, tp_finished, tp_added, tp_yielded>>
    /\ UNCHANGED outsideTaskPool

\* The iteration yields its next pair: the call leaves the pool.
PoolYield ==
    /\ \E t \in tp_ready :
          /\ tp_tasks' = TaskPoolPop(tp_tasks, t)
          /\ tp_yielded' = Append(tp_yielded, t)
          /\ tp_ready' = tp_ready \ {t}
    /\ UNCHANGED <<tp_finished, tp_added>>
    /\ UNCHANGED outsideTaskPool

NextTaskPool ==
    \/ PoolAdd
    \/ PoolCallFinishes
    \/ PoolCompleted
    \/ PoolYield

SpecTaskPool == Init /\ [][NextTaskPool]_vars

----------------------------------------------------------------------------
\* ReplayActor taken on its own: add_batch, replay and update_priorities in
\* any order on one actor.

outsideActor ==
    <<trainVars, ckptVars, taskPoolVars, evaluatorVars, ringVars>>

\* Values of prioritized_replay_eps: none, or one unit.
Epsilons == 0..prioritized_replay_eps

\* td errors, in units of eps.
Errors == (0 - MaxError)..MaxError

Abs(x) == IF x < 0 THEN 0 - x ELSE x

Max(a, b) == IF a < b THEN b ELSE a

\* The sign of the error kept.
new_priorities_Mut(td_error, eps) == td_error + eps

\* `np.abs(td_errors) + self.prioritized_replay_eps`, for one row.
new_priorities(td_error, eps) == Abs(td_error) + eps

\* replay_buffer.add for count rows on the priorities p with cursor next:
\* each row takes the slot at the cursor with the running maximum priority.
RECURSIVE AddPriorities(_, _, _, _)
AddPriorities(p, next, maxp, count) ==
    IF count = 0 THEN [priorities |-> p, next_idx |-> next]
    ELSE AddPriorities(IF next >= Len(p) THEN Append(p, maxp)
                       ELSE [p EXCEPT ![next + 1] = maxp],
                       (next + 1) % ActorCapacity, maxp, count - 1)

\* replay_buffer.update_priorities: the priorities are written index by
\* index in the order of the batch.
RECURSIVE WritePriorities(_, _, _)
WritePriorities(p, idxes, priorities) ==
    IF idxes = << >> THEN p
    ELSE WritePriorities([p EXCEPT ![Head(idxes) + 1] = Head(priorities)],
                         Tail(idxes), Tail(priorities))

\* The largest of maxp and the priorities written.
RECURSIVE MaxOf(_, _)
MaxOf(maxp, priorities) ==
    IF priorities = << >> THEN maxp
    ELSE MaxOf(Max(maxp, Head(priorities)), Tail(priorities))

\* ReplayActor.__init__ with its arguments drawn from the bounds.
InitActor ==
    /\ InitOptimizer
    /\ NoCheckpoint
    /\ NoTaskPool
    /\ NoEvaluator
    /\ NoRing
    /\ \E ls \in 0..MaxLearningStarts, ns \in 1..MaxShards :
          actor_replay_starts = ls \div ns
    /\ actor_train_batch_size \in 1..MaxTrainBatch
    /\ actor_eps \in Epsilons
    /\ actor_priorities = << >>
    /\ actor_next_idx = 0
    /\ actor_max_priority = max_priority
    /\ actor_call = NoCall

\* ReplayActor.add_batch
ActorAddBatch ==
    /\ \E count \in 1..ActorCapacity :
         LET b == AddPriorities(actor_priorities, actor_next_idx,
                                actor_max_priority, count)
         IN  /\ actor_priorities' = b.priorities
             /\ actor_next_idx' = b.next_idx
             /\ actor_call' = <<"add_batch", count>>
    /\ UNCHANGED <<actor_replay_starts, actor_train_batch_size, actor_eps,
                   actor_max_priority>>
    /\ UNCHANGED outsideActor

\* ReplayActor.replay
ActorReplay ==
    /\ \E result \in replay_on(actor_replay_starts, actor_train_batch_size,
                                Len(actor_priorities)) :
          actor_call' = <<"replay", result>>
    /\ UNCHANGED <<actor_replay_starts, actor_train_batch_size, actor_eps,
                   actor_priorities, actor_next_idx, actor_max_priority>>
    /\ UNCHANGED outsideActor

\* ReplayActor.update_priorities for the batch_indexes of a batch replayed
\* from this actor and the td errors of its rows.
ActorUpdatePriorities ==
    /\ actor_priorities # << >>
    /\ \E idxes \in [1..actor_train_batch_size ->
                        0..(Len(actor_priorities) - 1)],
          td_errors \in [1..actor_train_batch_size -> Errors] :
         LET priorities == [k \in DOMAIN td_errors |->
                               new_priorities(td_errors[k], actor_eps)]
         IN  /\ actor_priorities' =
                    WritePriorities(actor_priorities, idxes, priorities)
             /\ actor_max_priority' = MaxOf(actor_max_priority, priorities)
             /\ actor_call' = <<"update_priorities", idxes, td_errors>>
    /\ UNCHANGED <<actor_replay_starts, actor_train_batch_size, actor_eps,
                   actor_next_idx>>
    /\ UNCHANGED outsideActor

NextActor ==
    \/ ActorAddBatch
    \/ ActorReplay
    \/ ActorUpdatePriorities

SpecActor == InitActor /\ [][NextActor]_vars

----------------------------------------------------------------------------
\* DDPGEvaluator taken on its own: sample() on an environment whose steps
\* give any reward and any done flag.

outsideEvaluator ==
    <<trainVars, ckptVars, taskPoolVars, actorVars, ringVars>>

Rewards == 0..MaxReward

\* float(done)
Dones == {0, 1}

\* What env.step can give besides the new observation: a reward and a
\* done flag.
Outcomes == Rewards \X Dones

\* env.reset(): the first observation of an episode.
env_reset == 0

\* The new observation env.step gives when the environment last gave env:
\* the next of a cycle, whatever self.obs holds.
env_step(env) == (env % MaxObs) + 1

\* ddpg_graph.act: the action of the policy on an observation.
act(ob) == ob

\* DDPGEvaluator._step with self.obs = ob on an environment that last gave
\* env, as the tuple it returns, the self.obs it leaves and the observation
\* the environment gave last.
ddpg_step(ob, env, outcome) ==
    LET new_obs == env_step(env)
        left == IF outcome[2] # 0 THEN env_reset ELSE new_obs
    IN  [ret |-> <<ob, act(ob), outcome[1], new_obs, outcome[2]>>,
         obs |-> left,
         env |-> left]

\* `range(config["sample_batch_size"] + config["n_step"] - 1)`
NumSteps(batch_size, n_step) == batch_size + n_step - 1

\* The five lists and self.obs after the loop of sample() has taken the
\* steps with the given outcomes, starting from self.obs = ob on an
\* environment that last gave env.
RECURSIVE Collect(_, _, _, _)
Collect(lists, ob, env, outcomes) ==
    IF outcomes = << >> THEN [lists |-> lists, obs |-> ob, env |-> env]
    ELSE LET st == ddpg_step(ob, env, Head(outcomes))
         IN  Collect([obs |-> Append(lists.obs, st.ret[1]),
                      actions |-> Append(lists.actions, st.ret[2]),
                      rewards |-> Append(lists.rewards, st.ret[3]),
                      new_obs |-> Append(lists.new_obs, st.ret[4]),
                      dones |-> Append(lists.dones, st.ret[5])],
                     st.obs, st.env, Tail(outcomes))

NoLists ==
    [obs |-> << >>, actions |-> << >>, rewards |-> << >>, new_obs |-> << >>,
     dones |-> << >>]

RECURSIVE Pow(_, _)
Pow(g, j) == IF j = 0 THEN 1 ELSE g * Pow(g, j - 1)

\* The inner loop of adjust_nstep from j on, for the row i (counted from 1).
RECURSIVE FoldRow(_, _, _, _, _)
FoldRow(n_step, gamma, lists, i, j) ==
    IF j >= n_step THEN lists
    ELSE LET next == [lists EXCEPT
                         !.new_obs[i] = lists.new_obs[i + j],
                         !.rewards[i] = @ + Pow(gamma, j) * lists.rewards[i + j]]
         IN  IF lists.dones[i + j] # 0 THEN next
             ELSE FoldRow(n_step, gamma, next, i, j + 1)

\* The outer loop of adjust_nstep from the row i on.
RECURSIVE FoldRows(_, _, _, _)
FoldRows(n_step, gamma, lists, i) ==
    IF i > Len(lists.rewards) - n_step + 1 THEN lists
    ELSE FoldRows(n_step, gamma,
                  IF lists.dones[i] # 0 THEN lists
                  ELSE FoldRow(n_step, gamma, lists, i, 1),
                  i + 1)

\* One row too many is cut.
new_len_Mut(len_obs, n_step) == len_obs - n_step

\* `new_len = len(obs) - n_step + 1`
new_len(len_obs, n_step) == len_obs - n_step + 1

\* `del arr[new_len:]`, new_len not negative.
Truncate(arr, len) == SubSeq(arr, 1, Min(len, Len(arr)))

\* `for arr in [obs, actions, rewards, new_obs, dones]: del arr[new_len:]`
TruncateAll(l, len) ==
    [obs |-> Truncate(l.obs, len),
     actions |-> Truncate(l.actions, len),
     rewards |-> Truncate(l.rewards, len),
     new_obs |-> Truncate(l.new_obs, len),
     dones |-> Truncate(l.dones, len)]

\* The loops do not write obs: len(obs) is the length collected.
adjust_nstep(n_step, gamma, lists) ==
    TruncateAll(FoldRows(n_step, gamma, lists, 1),
                new_len(Len(lists.obs), n_step))

\* SampleBatch(...).count: the number of rows of the batch.
BatchCount(b) == Len(b.obs)

\* A DDPGEvaluator with any config of n_step >= 1.
InitEvaluator ==
    /\ InitOptimizer
    /\ NoCheckpoint
    /\ NoTaskPool
    /\ NoActor
    /\ NoRing
    /\ cfg_sample_batch_size \in 1..MaxSampleBatch
    /\ cfg_n_step \in 1..MaxNStep
    /\ cfg_gamma \in 1..MaxGamma
    /\ self_obs = 0
    /\ local_timestep = 0
    /\ built = None
    /\ assert_failed = FALSE
    /\ collected = << >>
    /\ sample_calls = 0
    /\ restore_calls = 0
    /\ env_obs = 0

\* DDPGEvaluator.sample()
EvaluatorSample ==
    /\ sample_calls < MaxSamples
    /\ \E outcomes \in [1..NumSteps(cfg_sample_batch_size, cfg_n_step)
                          -> Outcomes] :
        \E got \in {Collect(NoLists, self_obs, env_obs, outcomes)} :
        \E lists \in {IF cfg_n_step > 1
                          THEN adjust_nstep(cfg_n_step, cfg_gamma, got.lists)
                          ELSE got.lists} :
          LET stepped == local_timestep + Len(outcomes)
              b == [obs |-> lists.obs, actions |-> lists.actions,
                    rewards |-> lists.rewards, new_obs |-> lists.new_obs,
                    dones |-> lists.dones,
                    weights |-> [k \in DOMAIN lists.rewards |-> 1]]
          IN  /\ self_obs' = got.obs
              /\ env_obs' = got.env
              /\ local_timestep' = IF cfg_n_step > 1
                                      THEN stepped - (cfg_n_step - 1)
                                      ELSE stepped
              /\ collected' = <<Len(got.lists.obs), Len(got.lists.actions),
                                Len(got.lists.rewards),
                                Len(got.lists.new_obs),
                                Len(got.lists.dones)>>
              /\ built' = <<b>>
              /\ assert_failed' = (BatchCount(b) # cfg_sample_batch_size)
    /\ sample_calls' = sample_calls + 1
    /\ UNCHANGED <<cfg_sample_batch_size, cfg_n_step, cfg_gamma,
                   restore_calls>>
    /\ UNCHANGED outsideEvaluator

\* The observations an environment of the model can give.
Observations == 0..MaxObs

\* The values of data[6] restored.
Timesteps == 0..MaxTimestep

\* DDPGEvaluator.restore(data): self.obs = data[4] and
\* self.local_timestep = data[6], whatever the data hold; the other fields
\* it assigns are not read by sample(), and self.env is not touched.
EvaluatorRestore ==
    /\ restore_calls < MaxRestores
    /\ \E ob \in Observations, timestep \in Timesteps :
          /\ self_obs' = ob
          /\ local_timestep' = timestep
    /\ restore_calls' = restore_calls + 1
    /\ UNCHANGED <<cfg_sample_batch_size, cfg_n_step, cfg_gamma, built,
                   assert_failed, collected, sample_calls, env_obs>>
    /\ UNCHANGED outsideEvaluator

NextEvaluator ==
    \/ EvaluatorSample
    \/ EvaluatorRestore

SpecEvaluator == InitEvaluator /\ [][NextEvaluator]_vars

----------------------------------------------------------------------------
\* A replay shard under the requests a running optimizer sends it: add_batch
\* for the sampled batches, replay, and update_priorities for the batches
\* replayed from it, served one at a time in any order of arrival that keeps
\* a batch's update_priorities after its replay.

outsideRing ==
    <<trainVars, ckptVars, taskPoolVars, actorVars, evaluatorVars>>

\* replay_buffer.add for the transitions new on the slots st with cursor
\* next: each takes the slot at the cursor, which advances modulo the
\* capacity.
RECURSIVE RingAdd(_, _, _)
RingAdd(st, next, new) ==
    IF new = << >> THEN [storage |-> st, next_idx |-> next]
    ELSE RingAdd(IF next >= Len(st) THEN Append(st, Head(new))
                 ELSE [st EXCEPT ![next + 1] = Head(new)],
                 (next + 1) % ActorCapacity, Tail(new))

\* The transitions in the slots idxes of st.
RowsAt(st, idxes) == [k \in DOMAIN idxes |-> st[idxes[k] + 1]]

\* ReplayActor.add_batch of a batch of new transitions, numbered as they
\* come.
RingAddBatch ==
    /\ \E count \in 1..ActorCapacity :
          /\ ring_added + count <= MaxAdded
          /\ LET new == [k \in 1..count |-> ring_added + k]
                 b == RingAdd(ring_storage, ring_next_idx, new)
             IN  /\ ring_storage' = b.storage
                 /\ ring_next_idx' = b.next_idx
          /\ ring_added' = ring_added + count
    /\ UNCHANGED <<ring_pending, ring_update>>
    /\ UNCHANGED outsideRing

\* ReplayActor.replay returning a batch: its batch_indexes and the
\* transitions sampled into it go to the learner.
RingReplay ==
    /\ BagCardinality(ring_pending) < MaxPending
    /\ \E idxes \in replay(Len(ring_storage)) :
          /\ idxes # None
          /\ ring_pending' = ring_pending (+)
                 SetToBag({[batch_indexes |-> idxes,
                            rows |-> RowsAt(ring_storage, idxes)]})
    /\ UNCHANGED <<ring_storage, ring_next_idx, ring_added, ring_update>>
    /\ UNCHANGED outsideRing

\* ReplayActor.update_priorities(replay["batch_indexes"], td_error) for a
\* batch the learner has trained on: the priorities go to the slots named,
\* whatever they hold now.
RingUpdatePriorities ==
    /\ \E b \in BagToSet(ring_pending) :
          /\ ring_update' = <<[batch_indexes |-> b.batch_indexes,
                               rows |-> b.rows,
                               held |-> RowsAt(ring_storage,
                                               b.batch_indexes)]>>
          /\ ring_pending' = ring_pending (-) SetToBag({b})
    /\ UNCHANGED <<ring_storage, ring_next_idx, ring_added>>
    /\ UNCHANGED outsideRing

NextRing ==
    \/ RingAddBatch
    \/ RingReplay
    \/ RingUpdatePriorities

SpecRing == Init /\ [][NextRing]_vars

----------------------------------------------------------------------------
\* Properties

\* The finished sample calls of worker ev drained and not yet processed.
CompletedOf(ev) == CopiesIn(<<ev, sample_batch_size>>, completed)

\* C1: while no remote call has failed, every registered worker has exactly
\* SAMPLE_QUEUE_DEPTH sample requests outstanding at every tick boundary and
\* in the later phases of a tick; inside the sample phase each drained
\* completion not yet processed stands for exactly one request that the loop
\* will reissue to the same worker.
C1_SampleDepth ==
    \A ev \in remote_evaluators :
        IF cpc \in {"sample", "get_weights"}
        THEN InFlight(ev) + CompletedOf(ev) + (IF ev_cur = ev THEN 1 ELSE 0)
                 = SAMPLE_QUEUE_DEPTH
        ELSE cpc # "raised" => InFlight(ev) = SAMPLE_QUEUE_DEPTH

C1_Witness ==
    /\ cpc = "idle"
    /\ ticks >= 2
    /\ num_steps_sampled >= 2 * sample_batch_size
    /\ num_weight_syncs > 0
    /\ \A ev \in Workers : InFlight(ev) = SAMPLE_QUEUE_DEPTH

\* C2: every replay shard has exactly REPLAY_QUEUE_DEPTH replay requests
\* outstanding at every position of the coordinator, tick boundaries
\* included, whether the results retrieved so far were batches or None.
C2_ReplayDepth ==
    \A ra \in Shards : ReplayInFlight(ra) = REPLAY_QUEUE_DEPTH

C2_Witness ==
    /\ cpc = "idle"
    /\ ticks >= 2
    /\ out_puts > 0
    /\ \E ra \in Shards : CopiesIn(<<ra, None>>, replay_tasks) > 0
    /\ \E ra \in Shards : CopiesIn(<<ra, None>>, replay_tasks) < REPLAY_QUEUE_DEPTH

\* The sample loop of the tick is over (and the replay drain not begun).
SampleLoopOver == cpc = "sample" /\ completed = EmptyBag

\* A capture is in progress for worker w.
Capturing(w) == cpc = "get_weights" /\ ev_cur = w

\* C3 as claimed: a worker whose counter reached the threshold in a tick
\* has received exactly one set_weights call when the tick's sample loop is
\* over, however many of its sample calls completed in the tick.
C3_ExactlyOnePerTick ==
    SampleLoopOver => \A w \in Workers : due[w] > 0 => syncs[w] = 1

\* C3 amended: every processed completion that brings its worker's counter
\* to the threshold or above issues exactly one set_weights call to that
\* worker and resets the counter to 0 before the next completion is
\* processed; a tick issues one call per such completion, which is at least
\* one and at most SAMPLE_QUEUE_DEPTH calls to the same worker.
C3_OnePerCompletion ==
    /\ [](\A w \in remote_evaluators :
            /\ syncs[w] + (IF Capturing(w) THEN 1 ELSE 0) = due[w]
            /\ due[w] <= SAMPLE_QUEUE_DEPTH
            /\ ~Capturing(w) => steps_since_update[w] < max_weight_sync_delay)
    /\ [][\A w \in Workers :
            syncs'[w] = syncs[w] + 1 => steps_since_update'[w] = 0]_vars

C3_Witness == SampleLoopOver /\ \E w \in Workers : syncs[w] = 2

\* C4 as claimed: the weight snapshot is captured at most once in a tick
\* and all the workers synced in the tick receive the same snapshot.
C4_CapturedOnce == captures <= 1 /\ Cardinality(pushed) <= 1

\* C4 amended: a sync captures a new snapshot when it is the tick's first or
\* when the learner thread has set weights_updated since the last capture,
\* so a tick holds at most one capture more than the learner steps that
\* ended during its sample phase (exactly one snapshot for all the workers
\* when none ended), never more captures than syncs, and every synced
\* worker receives the snapshot captured last.
C4_CaptureWhenUpdated ==
    /\ [](/\ captures + (IF cpc = "get_weights" THEN 1 ELSE 0) <= 1 + flags
          /\ flags = 0 => Cardinality(pushed) <= 1
          /\ \A w \in pushed : w.id \in 1..captures
          /\ weights # NoWeights => weights.id = captures)
    /\ [][\A w \in Workers :
            syncs'[w] = syncs[w] + 1 =>
                /\ weights' \in pushed'
                /\ weights'.id = captures'
                /\ captures' \in {captures, captures + 1}]_vars

C4_Witness ==
    /\ SampleLoopOver
    /\ captures = 2
    /\ \A w \in Workers : syncs[w] = 1

\* C5: the inbound queue never holds more than LEARNER_QUEUE_MAX_SIZE items;
\* while it is full the coordinator stays at its put with the same item in
\* hand, the queue changing only by the learner's dequeue, and the put
\* completes only below the bound, appending the item.
C5_Backpressure ==
    /\ [](Len(inqueue) <= LEARNER_QUEUE_MAX_SIZE)
    /\ [][(cpc = "put" /\ Len(inqueue) = LEARNER_QUEUE_MAX_SIZE) =>
            /\ cpc' = "put"
            /\ samples' = samples
            /\ inqueue' \in {inqueue, Tail(inqueue)}]_vars
    /\ [][(cpc = "put" /\ cpc' # "put") =>
            /\ Len(inqueue) < LEARNER_QUEUE_MAX_SIZE
            /\ inqueue' = Append(inqueue, samples)
            /\ cpc' = "replay"]_vars

C5_Witness ==
    /\ cpc = "put"
    /\ Len(inqueue) = LEARNER_QUEUE_MAX_SIZE
    /\ lpc = "get"
    /\ samples[2] # None

\* C6 as claimed: after a failed sampling call has surfaced, every worker
\* again has SAMPLE_QUEUE_DEPTH requests in flight.
C6_Replenished ==
    cpc = "raised" =>
        \A ev \in remote_evaluators : InFlight(ev) = SAMPLE_QUEUE_DEPTH

\* C7 as claimed: no pair whose batch is None is placed on the inbound
\* queue, and the coordinator never waits on the queue with such a pair.
C7_NoneSkipped ==
    /\ \A i \in DOMAIN inqueue : inqueue[i][2] # None
    /\ cpc = "put" => samples[2] # None

\* C7 amended: for a replay() result of None the coordinator still puts the
\* pair (shard, None) on the inbound queue, waiting when it is full; it is
\* the learner that skips it: a None pair starts no training step and puts
\* nothing on the outbound queue, so no update_priorities call carries it.
C7_LearnerSkipsNone ==
    /\ [](/\ \A i \in DOMAIN outqueue : outqueue[i][2] # None
          /\ lpc = "train" => cur[2] # None
          /\ last_update # NoItem => last_update[2] # None)
    /\ [][(cpc = "put" /\ cpc' # "put" /\ samples[2] = None) =>
            inqueue' = Append(inqueue, samples)]_vars
    /\ [][(lpc = "get" /\ lpc' # "get" /\ Head(inqueue)[2] = None) =>
            /\ lpc' = "flag"
            /\ outqueue' = outqueue
            /\ out_puts' = out_puts]_vars

C7_Witness ==
    /\ cpc = "put"
    /\ samples[2] = None
    /\ Len(inqueue) = LEARNER_QUEUE_MAX_SIZE
    /\ \A i \in DOMAIN inqueue : inqueue[i][2] = None

\* The update_priorities calls issued so far, over all shards.
RECURSIVE CallsOf(_)
CallsOf(S) ==
    IF S = {} THEN 0
    ELSE LET ra == CHOOSE x \in S : TRUE
         IN update_calls[ra] + CallsOf(S \ {ra})

\* C9 as claimed: the coordinator never reads the local model's weights
\* while the learner thread is inside compute_apply on the same evaluator.
C9_NoConcurrentModelAccess == ~(cpc = "get_weights" /\ lpc = "train")

----------------------------------------------------------------------------
\* The transitions of a file as a multiset of lines.
LinesOf(f) ==
    LET S == {f[i] : i \in DOMAIN f}
    IN  [l \in S |-> Cardinality({i \in DOMAIN f : f[i] = l})]

\* C10: after save(), restore() of the written file into fresh shards and a
\* second save(), the second file holds the same multiset of transitions
\* as the first, column by column (obs, action, reward, next obs, done,
\* weight); a transition saved with done = false comes back with done =
\* false.
C10_RoundTrip ==
    (ck_pc = "saved" /\ exports = 2) => LinesOf(file) = LinesOf(exported)

----------------------------------------------------------------------------
\* The parsed lines of the k-th group (k from 0) of CHUNK consecutive lines
\* of the file f.
Group(f, k) ==
    [j \in 1..Min(CHUNK, Len(f) - k * CHUNK) |-> ParseLine(f[k * CHUNK + j])]

\* C11: restore() of a file of L lines into S shards sends the k-th group
\* of 16 consecutive lines (k from 0) in one add_batch call to shard
\* k mod S, a last partial group of L mod 16 lines to shard
\* floor(L/16) mod S, never more than 16 lines and never none in a call,
\* and once it has returned every line has been sent exactly once (L in
\* total).
C11_RoundRobin ==
    ck_pc \in {"restore", "restored"} =>
        /\ \A k \in DOMAIN add_calls :
              /\ add_calls[k][1] = (k - 1) % NumReplayActors
              /\ add_calls[k][2] = Group(file, k - 1)
              /\ Len(add_calls[k][2]) \in 1..CHUNK
        /\ Len(add_calls) * CHUNK <= lines_read + CHUNK - 1
        /\ ck_pc = "restored" =>
              /\ Len(add_calls) = (Len(file) + CHUNK - 1) \div CHUNK
              /\ \A k \in DOMAIN add_calls :
                    k < Len(add_calls) => Len(add_calls[k][2]) = CHUNK
              /\ Len(file) % CHUNK # 0 =>
                    /\ Len(add_calls[Len(add_calls)][2]) = Len(file) % CHUNK
                    /\ add_calls[Len(add_calls)][1] =
                           (Len(file) \div CHUNK) % NumReplayActors

\* A file of two full groups and a partial one has been restored: the third
\* call wrapped around to the first shard.
C11_Witness ==
    /\ ck_pc = "restored"
    /\ Len(file) = 2 * CHUNK + 2
    /\ Len(add_calls) = 3
    /\ add_calls[3][1] = 0
    /\ Len(add_calls[3][2]) = 2

----------------------------------------------------------------------------
\* C12: of the calls added to a TaskPool, which finish in any order, the
\* iterations of completed() yield each at most once, with the actor it was
\* added with, and only after it has finished; count is the number of calls
\* added and not yet yielded, so it is zero once every call has been
\* yielded.
C12_YieldedOnce ==
    /\ \A i, j \in DOMAIN tp_yielded :
          tp_yielded[i] = tp_yielded[j] => i = j
    /\ \A i \in DOMAIN tp_yielded :
          /\ tp_yielded[i][2] \in DOMAIN tp_added
          /\ tp_yielded[i][1] = tp_added[tp_yielded[i][2]]
          /\ tp_yielded[i] \in tp_finished
    /\ TaskPoolCount(tp_tasks) = Len(tp_added) - Len(tp_yielded)

\* Four calls, two of them concurrent on each actor, were yielded in an
\* order other than the one they were added in, and the pool is empty.
C12_Witness ==
    /\ Len(tp_added) = MaxCalls
    /\ Len(tp_yielded) = MaxCalls
    /\ TaskPoolCount(tp_tasks) = 0
    /\ tp_added = <<1, 1, 2, 2>>
    /\ tp_yielded[1][2] = 4

----------------------------------------------------------------------------
\* C13: replay() returns None exactly when the buffer holds fewer than
\* replay_starts transitions; otherwise, replay_starts = 0 included, it
\* returns a batch of train_batch_size rows whose batch_indexes lie in
\* [0, buffer length).
C13_ReplayResult ==
    actor_call[1] = "replay" =>
        /\ actor_call[2] = None <=>
               Len(actor_priorities) < actor_replay_starts
        /\ Len(actor_priorities) >= actor_replay_starts =>
               actor_call[2] \in [1..actor_train_batch_size ->
                                    0..(Len(actor_priorities) - 1)]

\* C14: the priorities update_priorities leaves in the buffer are
\* |td_error| + eps for the index of each row (the last row of an index
\* written twice), and with eps > 0 no stored priority is ever <= 0, so no
\* index replay() can draw has one.
C14_PositivePriorities ==
    /\ actor_call[1] = "update_priorities" =>
          \A k \in DOMAIN actor_call[2] :
              (\A j \in DOMAIN actor_call[2] :
                   actor_call[2][j] = actor_call[2][k] => j <= k)
              => actor_priorities[actor_call[2][k] + 1] =
                     Abs(actor_call[3][k]) + actor_eps
    /\ actor_eps > 0 =>
          \A i \in DOMAIN actor_priorities : actor_priorities[i] > 0

\* A negative error was written with eps > 0.
C14_Witness ==
    /\ actor_call[1] = "update_priorities"
    /\ actor_eps > 0
    /\ actor_call[3][1] < 0
    /\ actor_priorities[actor_call[2][1] + 1] = MaxError + actor_eps

----------------------------------------------------------------------------
\* C15: in the priority-feedback phase the coordinator never waits: when it
\* is about to call outqueue.get() the queue holds an item, whatever the
\* learner thread has done since empty() was tested, so the get can be
\* taken at once; at every position of a tick other than the put on the
\* inbound queue the coordinator's next step does not wait for a queue.
C15_GetNeverBlocks ==
    /\ cpc = "prio_get" => (outqueue # << >> /\ ENABLED OutqueueGet)
    /\ cpc = "prio" => (ENABLED OutqueueNotEmpty \/ ENABLED StepReturn)
    /\ cpc = "replay" => (ENABLED ReplayNext \/ ENABLED ReplayDone)

\* The coordinator is about to get while the learner thread is in a
\* training step whose result it will put on the same queue.
C15_Witness ==
    /\ cpc = "prio_get"
    /\ Len(outqueue) = 1
    /\ lpc = "train"

----------------------------------------------------------------------------
\* The pair holds a batch.
HoldsBatch(pair) == pair[2] # None

\* The pairs the learner thread has finished with: all that left the
\* inbound queue, but the one being trained on.
Finished ==
    SubSeq(in_log, 1,
           Len(in_log) - Len(inqueue) - (IF lpc = "train" THEN 1 ELSE 0))

\* C16: the learner thread takes the pairs off the inbound queue in the
\* order they were put, each once; the outbound tuples are, in that same
\* order, one per pair holding a batch (its shard, its batch, the error
\* signal of the batch, its size), and a pair holding None gives no training
\* step and no tuple.
C16_LearnerFifo ==
    /\ inqueue = SubSeq(in_log, Len(in_log) - Len(inqueue) + 1, Len(in_log))
    /\ lpc \in {"train", "flag"} =>
          cur = in_log[Len(in_log) - Len(inqueue)]
    /\ lpc = "train" => HoldsBatch(cur)
    /\ LET fed == SelectSeq(Finished, HoldsBatch)
       IN  out_log = [k \in DOMAIN fed |->
                         <<fed[k][1], fed[k][2], td_error_of(fed[k][2]),
                           Len(fed[k][2])>>]
    /\ outqueue = out_log

\* Four pairs were put, a None between batches of different shards, and
\* the three tuples are out.
C16_Witness ==
    /\ Len(in_log) = MaxFeed
    /\ in_log[2][2] = None
    /\ in_log[1][1] # in_log[3][1]
    /\ in_log[3][2] # in_log[4][2]
    /\ HoldsBatch(in_log[1]) /\ HoldsBatch(in_log[3]) /\ HoldsBatch(in_log[4])
    /\ Len(out_log) = 3
    /\ lpc = "get"

----------------------------------------------------------------------------
\* The outbound tuples the coordinator has removed from the outbound queue,
\* in the order the learner thread put them.
Drained == SubSeq(out_log, 1, Len(out_log) - Len(outqueue))

\* The pair is a replay call of the shard ra with a result replay() can
\* have given on ra: None, or a batch of train_batch_size rows whose
\* batch_indexes are slots that ra has filled.
ReplayOf(pair) ==
    /\ pair[1] \in Shards
    /\ \/ pair[2] = None
       \/ /\ Len(pair[2]) = train_batch_size
          /\ \A k \in DOMAIN pair[2] :
                pair[2][k] \in 0..(buffer_len[pair[1]] - 1)

\* C8: every item the learner has put on the outbound queue is either still
\* on it or was removed once, by the coordinator, for one update_priorities
\* call.  The pair of a shard and a batch stays together all the way: the
\* calls of the pool pair a shard with a result of its own replay(), the
\* pair yielded is the pair put on the inbound queue, the learner trains on
\* the pair at the head of that queue and puts the pair's shard and batch
\* with the errors computed for that batch, and the call made for a
\* removed item goes to the item's shard with its batch's batch_indexes
\* and those errors, so that every shard has got as many calls as items of
\* its own were removed; no call is made but for an item removed; and the
\* priority-feedback phase ends only on an outbound queue found empty.
C8_PriorityFeedback ==
    /\ [](/\ Len(outqueue) <= Len(out_log)
          /\ out_puts = Len(out_log)
          /\ outqueue = SubSeq(out_log, Len(Drained) + 1, Len(out_log))
          /\ DOMAIN update_calls = Shards
          /\ \A ra \in Shards :
                update_calls[ra] =
                    Cardinality({k \in DOMAIN Drained : Drained[k][1] = ra})
          /\ last_update = IF Drained = << >> THEN NoItem
                           ELSE LET item == Drained[Len(Drained)]
                                IN  <<item[1], item[2], item[3]>>
          /\ \A k \in DOMAIN out_log :
                /\ ReplayOf(out_log[k]) /\ out_log[k][2] # None
                /\ out_log[k][3] = td_error_of(out_log[k][2])
          /\ \A t \in BagToSet(replay_tasks) : ReplayOf(t)
          /\ \A t \in BagToSet(ready) : CopiesIn(t, replay_tasks) > 0
          /\ \A k \in DOMAIN inqueue : ReplayOf(inqueue[k]))
    /\ [][(samples' # samples /\ samples' # NoItem) =>
            CopiesIn(samples', ready) > 0]_vars
    /\ [][inqueue' # inqueue =>
            \/ inqueue' = Append(inqueue, samples)
            \/ inqueue # << >> /\ inqueue' = Tail(inqueue)
                              /\ cur' = Head(inqueue)]_vars
    /\ [][outqueue' # outqueue =>
            \/ /\ cpc = cpc'
               /\ outqueue' = Append(outqueue,
                                     <<cur[1], cur[2], td_error_of(cur[2]),
                                       Len(cur[2])>>)
               /\ UNCHANGED <<update_calls, last_update>>
            \/ /\ cpc = "prio_get"
               /\ outqueue # << >>
               /\ outqueue' = Tail(outqueue)
               /\ last_update' = <<Head(outqueue)[1], Head(outqueue)[2],
                                   Head(outqueue)[3]>>
               /\ update_calls' = [update_calls EXCEPT
                                     ![Head(outqueue)[1]] = @ + 1]]_vars
    /\ [][(update_calls' # update_calls \/ last_update' # last_update) =>
            (cpc = "prio_get" /\ outqueue # << >>
             /\ outqueue' = Tail(outqueue))]_vars
    /\ [][(cpc = "prio_get" /\ cpc' # "prio_get") =>
            (outqueue # << >> /\ outqueue' = Tail(outqueue))]_vars
    /\ [][(cpc # "idle" /\ cpc' = "idle") => outqueue = << >>]_vars

\* Between ticks, the learner has trained on a batch of each of the two
\* shards, of different batch_indexes, and both calls were made, the last
\* of them to the second shard while the first shard's batch had the other
\* index.
C8_Witness ==
    /\ cpc = "idle"
    /\ num_replay_buffer_shards = MaxShards
    /\ outqueue = << >>
    /\ Len(out_log) = 2
    /\ out_log[1][1] = 1 /\ out_log[1][2] = <<1>>
    /\ update_calls = (1 :> 1) @@ (2 :> 1)
    /\ last_update = <<2, <<0>>, <<1>>>>
    /\ lpc = "get"

----------------------------------------------------------------------------
----------------------------------------------------------------------------
\* The positions of the calls of a method to an actor among the calls sent.
CallsTo(actor, method) ==
    {i \in DOMAIN sent : sent[i] = RemoteCall(actor, method)}

\* C19: set_evaluators sends every worker its set_weights before any of its
\* SAMPLE_QUEUE_DEPTH sampling requests; an iteration of the sample loop
\* sends one add_batch to one shard first, then to the worker of the
\* completion at most one set_weights and last one sampling request, never
\* the request ahead of the set_weights; while the weights are being
\* captured the request has not been sent.
C19_CallOrder ==
    /\ (sent # << >> /\ sent[1].method = "set_weights") =>
          \A ev \in Workers :
              /\ Cardinality(CallsTo(ev, "set_weights")) = 1
              /\ Cardinality(CallsTo(ev, "sample_with_count")) =
                     SAMPLE_QUEUE_DEPTH
              /\ \A i \in CallsTo(ev, "set_weights"),
                    j \in CallsTo(ev, "sample_with_count") : i < j
    /\ (sent # << >> /\ sent[1].method = "add_batch") =>
          /\ sent[1].to \in Shards
          /\ \A i \in DOMAIN sent : i > 1 => sent[i].method # "add_batch"
          /\ \A i, j \in DOMAIN sent :
                (i > 1 /\ j > 1) => sent[i].to = sent[j].to
          /\ \A ev \in Workers :
                /\ Cardinality(CallsTo(ev, "set_weights")) <= 1
                /\ Cardinality(CallsTo(ev, "sample_with_count")) <= 1
                /\ \A i \in CallsTo(ev, "set_weights"),
                      j \in CallsTo(ev, "sample_with_count") : i < j
          /\ IF cpc = "get_weights"
                THEN Len(sent) = 1
                ELSE sent[Len(sent)].method = "sample_with_count"
    /\ cpc = "get_weights" => sent # << >>

\* An iteration that captured weights is over: add_batch, set_weights and
\* the replacement request went out in this order.
C19_Witness ==
    /\ cpc = "sample"
    /\ captures > 0
    /\ Len(sent) = 3
    /\ sent[1].method = "add_batch"
    /\ sent[2].method = "set_weights"
    /\ sent[3] = RemoteCall(sent[2].to, "sample_with_count")

----------------------------------------------------------------------------
\* The coordinator is inside a tick.
InTick == cpc \in {"sample", "get_weights", "replay", "put", "prio", "prio_get"}

\* C20: a tick drains each pool once.  The sample calls a tick retrieves
\* were outstanding when its drain began and the others stay in the pool;
\* likewise for the replay calls; within a phase the calls still to be
\* processed only become fewer, one per iteration, whatever is resubmitted
\* meanwhile, so a phase has at most as many iterations as calls were
\* outstanding at its start; and with the learner thread running every tick
\* that has started its loops returns.
C20_OneDrainPerPhase ==
    /\ [][(cpc = "idle" /\ cpc' = "sample") =>
            /\ BagCardinality(completed') <= BagCardinality(sample_tasks)
            /\ \A ev \in Workers :
                  CopiesIn(ev, sample_tasks') +
                      CopiesIn(<<ev, sample_batch_size>>, completed') =
                  CopiesIn(ev, sample_tasks)]_vars
    /\ [][(cpc \in {"sample", "get_weights"} /\ cpc' # "replay") =>
            /\ completed' \sqsubseteq completed
            /\ sample_tasks' # sample_tasks =>
                  \/ BagCardinality(completed') = BagCardinality(completed) - 1
                  \/ cpc = "get_weights"]_vars
    /\ [][(cpc = "sample" /\ cpc' = "replay") =>
            /\ ready' \sqsubseteq replay_tasks
            /\ replay_tasks' = replay_tasks]_vars
    /\ [][(cpc \in {"replay", "put"}) =>
            /\ ready' \sqsubseteq ready
            /\ replay_tasks' # replay_tasks =>
                  BagCardinality(ready') = BagCardinality(ready) - 1
            /\ (cpc = "replay" /\ cpc' = "put") =>
                  BagCardinality(ready') = BagCardinality(ready) - 1
            /\ BagCardinality(replay_tasks') = BagCardinality(replay_tasks)]_vars
    /\ [](cpc \in {"replay", "put"} => ready \sqsubseteq replay_tasks)
    /\ (InTick ~> cpc = "idle")

\* A second tick is in its replay phase with calls still to yield, among
\* them none of those resubmitted in this tick.
C20_Witness ==
    /\ cpc = "put"
    /\ ticks = MaxTicks
    /\ BagCardinality(ready) = 2
    /\ BagCardinality(replay_tasks) = REPLAY_QUEUE_DEPTH * num_replay_buffer_shards
    /\ samples[2] # None

----------------------------------------------------------------------------
\* The number of transitions the requests c (pairs of start index and
\* count) ask for.
RECURSIVE Requested(_)
Requested(c) == IF c = << >> THEN 0 ELSE Head(c)[2] + Requested(Tail(c))

\* The sum of f over the shards 0..n-1.
RECURSIVE Total(_, _)
Total(f, n) == IF n = 0 THEN 0 ELSE f[n - 1] + Total(f, n - 1)

\* The get_data requests to shard ra that are not fetched yet.
Outstanding(ra) == {t \in get_data_tasks : t[1] = ra}

\* The lines of all the transitions of the shards 0..n-1.
RECURSIVE AllLines(_)
AllLines(n) ==
    IF n = 0 THEN << >>
    ELSE AllLines(n - 1) \o
         [j \in 1..Len(storage[n - 1]) |->
             Line(get_data(n - 1, 0, Len(storage[n - 1]))[j])]

\* C18: during save() the requests to a shard that reported n transitions
\* are consecutive chunks from index 0, each of 1..16 transitions, without
\* gap or overlap, never past n and never two outstanding at a time; a shard
\* that reported 0 gets none; every fetched transition has one line; when
\* save() returns every shard's requests cover 0..n-1 and the file holds
\* exactly one line per buffered transition.
C18_SaveCoversOnce ==
    ck_pc \in {"save", "saved"} =>
        /\ \A ra \in replay_actors :
              /\ num_samples[ra] = Len(storage[ra])
              /\ \A k \in DOMAIN get_calls[ra] :
                    /\ get_calls[ra][k][1] =
                           Requested(SubSeq(get_calls[ra], 1, k - 1))
                    /\ get_calls[ra][k][2] \in 1..CHUNK
              /\ Requested(get_calls[ra]) = start_indices[ra]
              /\ start_indices[ra] <= num_samples[ra]
              /\ Cardinality(Outstanding(ra)) <= 1
              /\ \A t \in Outstanding(ra) :
                    <<t[2], t[3]>> = get_calls[ra][Len(get_calls[ra])]
              /\ num_samples[ra] = 0 => get_calls[ra] = << >>
              /\ ck_pc = "saved" => start_indices[ra] = num_samples[ra]
        /\ Len(file) =
               Total(start_indices, NumReplayActors) -
               Total([ra \in replay_actors |->
                         IF Outstanding(ra) = {} THEN 0
                         ELSE get_calls[ra][Len(get_calls[ra])][2]],
                     NumReplayActors)
        /\ ck_pc = "saved" =>
              /\ Len(file) = Total(num_samples, NumReplayActors)
              /\ LinesOf(file) = LinesOf(AllLines(NumReplayActors))

\* save() has returned for a shard of 17 transitions, asked in two chunks,
\* and an empty shard, not asked.
C18_Witness ==
    /\ ck_pc = "saved"
    /\ exports = 1
    /\ get_calls[0] = <<<<0, CHUNK>>, <<CHUNK, 1>>>>
    /\ get_calls[1] = << >>
    /\ Len(file) = CHUNK + 1

----------------------------------------------------------------------------
\* The columns of a batch that sample() fills from its five lists.
Columns(b) == <<b.obs, b.actions, b.rewards, b.new_obs, b.dones>>

\* C21: after every call of sample() with n_step >= 1 the assertion has
\* held: the batch has exactly sample_batch_size rows in each of its
\* columns; each of the five lists had sample_batch_size + n_step - 1
\* entries after the loop and lost exactly n_step - 1 of them; and every
\* call of sample() advances local_timestep by sample_batch_size, from
\* whatever value the construction, the previous call or restore() left.
C21_SampleBatchSize ==
    /\ [](sample_calls > 0 =>
            /\ ~assert_failed
            /\ BatchCount(built[1]) = cfg_sample_batch_size
            /\ Len(built[1].weights) = cfg_sample_batch_size
            /\ \A k \in 1..5 :
                  /\ collected[k] = cfg_sample_batch_size + cfg_n_step - 1
                  /\ Len(Columns(built[1])[k]) =
                         collected[k] - (cfg_n_step - 1)
                  /\ Len(Columns(built[1])[k]) = cfg_sample_batch_size)
    /\ [](restore_calls = 0 =>
             local_timestep = sample_calls * cfg_sample_batch_size)
    /\ [][sample_calls' # sample_calls =>
            /\ sample_calls' = sample_calls + 1
            /\ local_timestep' = local_timestep + cfg_sample_batch_size]_vars

\* The second sample() with n_step = 3 has returned two rows, the first of
\* them with the rewards of three steps folded into it, the first call
\* having been followed by a restore() to the largest local_timestep and
\* to an observation (0) that the environment, left at 1, did not follow.
C21_Witness ==
    /\ sample_calls = 2
    /\ cfg_n_step = 3
    /\ cfg_sample_batch_size = 2
    /\ cfg_gamma = 2
    /\ collected = <<4, 4, 4, 4, 4>>
    /\ built[1].rewards[1] = 1 + 2 + 4
    /\ restore_calls = 1
    /\ local_timestep = MaxTimestep + 2
    /\ built[1].obs = <<0, 2>>

----------------------------------------------------------------------------
\* The set_weights calls in a sequence of remote calls.
WeightCalls(calls) ==
    Cardinality({i \in DOMAIN calls : calls[i].method = "set_weights"})

\* C22: between ticks every registered worker's steps_since_update is in
\* 0..max_weight_sync_delay - 1 (the threshold being positive), and
\* num_weight_syncs counts the set_weights calls of _step: an iteration of
\* the sample loop, or the end of a capture, raises it by the number of
\* set_weights calls it sends, and no other step changes it, the calls of
\* set_evaluators not being counted.
C22_CountersBetweenTicks ==
    /\ []((cpc = "idle" /\ max_weight_sync_delay > 0) =>
            /\ DOMAIN steps_since_update = remote_evaluators
            /\ \A ev \in remote_evaluators :
                  /\ steps_since_update[ev] >= 0
                  /\ steps_since_update[ev] < max_weight_sync_delay)
    /\ [](num_weight_syncs >= 0)
    /\ [][num_weight_syncs' - num_weight_syncs =
             IF cpc = "sample" /\ completed' # completed
                THEN WeightCalls(sent')
             ELSE IF cpc = "get_weights" /\ cpc' = "sample"
                THEN WeightCalls(sent') - WeightCalls(sent)
             ELSE 0]_vars

\* A tick has returned with one worker synced by _step and the other's
\* counter raised but below the threshold.
C22_Witness ==
    /\ cpc = "idle"
    /\ ticks >= 1
    /\ num_weight_syncs >= 1
    /\ \E ev \in remote_evaluators :
          /\ steps_since_update[ev] = sample_batch_size
          /\ steps_since_update[ev] < max_weight_sync_delay
    /\ \E ev \in remote_evaluators : steps_since_update[ev] = 0

----------------------------------------------------------------------------
\* C23: every snapshot _step pushes was captured in the running tick: the
\* snapshots pushed in a tick and the local `weights` carry the tick's
\* number, each sync pushes the local `weights` as it is after the sync, and
\* the first completion of a tick that needs a sync starts a capture
\* whether or not weights_updated is set.
C23_FreshSnapshot ==
    /\ [](/\ \A w \in pushed : w.tick = ticks /\ w.id \in 1..captures
          /\ weights # NoWeights => weights.tick = ticks)
    /\ [][\A ev \in Workers :
            syncs'[ev] = syncs[ev] + 1 =>
                /\ weights' # NoWeights
                /\ weights'.tick = ticks
                /\ weights' \in pushed']_vars
    /\ [][(/\ cpc = "sample"
           /\ completed' # completed
           /\ due' # due
           /\ captures = 0) =>
             /\ cpc' = "get_weights"
             /\ syncs' = syncs
             /\ ~weights_updated']_vars

\* The second tick has pushed a snapshot after the first tick pushed one,
\* and the learner thread has not set weights_updated since.
C23_Witness ==
    /\ ticks = 2
    /\ cpc = "sample"
    /\ pushed # {}
    /\ num_weight_syncs > Cardinality(pushed)
    /\ captures = 1
    /\ flags = 0
    /\ ~weights_updated

----------------------------------------------------------------------------
\* The most tuples the outbound queue can collect between two drains: the
\* pairs a full inbound queue holds, the one the learner has in hand, and
\* the pairs one replay phase puts.
OutqueueBound ==
    LEARNER_QUEUE_MAX_SIZE + 1 + REPLAY_QUEUE_DEPTH * num_replay_buffer_shards

\* The pairs with a batch that are on the inbound queue or in the learner's
\* hand: each of them gives one tuple on the outbound queue.
Upcoming ==
    Cardinality({i \in DOMAIN inqueue : IsBatch(inqueue[i][2])}) +
    (IF lpc = "train" THEN 1 ELSE 0)

\* C24: the outbound queue, created without a bound, never holds more than
\* LEARNER_QUEUE_MAX_SIZE + 1 + REPLAY_QUEUE_DEPTH * S tuples; between the
\* end of a tick and the next replay phase it holds, together with the
\* pairs still to be trained on, at most LEARNER_QUEUE_MAX_SIZE + 1.
C24_OutqueueBounded ==
    /\ Len(outqueue) <= OutqueueBound
    /\ cpc \in {"idle", "sample", "get_weights"} =>
          Len(outqueue) + Upcoming <= LEARNER_QUEUE_MAX_SIZE + 1

\* The priority-feedback phase starts on an outbound queue at the bound.
C24_Witness ==
    /\ cpc = "prio"
    /\ Len(outqueue) = OutqueueBound

----------------------------------------------------------------------------
\* C25 as claimed: when update_priorities is applied for a replayed batch,
\* every slot named in its batch_indexes still holds the transition that
\* was sampled into the batch.
C25_SlotsUnchanged ==
    ring_update # None => ring_update[1].held = ring_update[1].rows

----------------------------------------------------------------------------
\* The coordinator waits at its put on the full inbound queue.
PutBlocked == cpc = "put" /\ ~ENABLED InqueuePut

\* C26: the learner's put on the outbound queue can always be taken; while
\* the coordinator waits at its put on the full inbound queue the learner
\* thread has a step to take, and with the learner thread running the
\* coordinator leaves the put; and whenever a tick is running while tuples
\* the learner has put on the outbound queue await their update_priorities
\* call, a moment comes at which every tuple put so far has had its call,
\* the calls being issued in the order of the puts.
C26_NoDeadlock ==
    /\ [](lpc = "train" => ENABLED LearnerTrain)
    /\ [](PutBlocked =>
             (ENABLED LearnerGet \/ ENABLED LearnerTrain
                 \/ ENABLED LearnerFlag))
    /\ (cpc = "put") ~> (cpc # "put")
    /\ (InTick /\ out_puts > CallsOf(Shards)) ~> (out_puts = CallsOf(Shards))
    /\ [][CallsOf(Shards)' # CallsOf(Shards) =>
            /\ CallsOf(Shards)' = CallsOf(Shards) + 1
            /\ outqueue' = Tail(outqueue)]_vars

\* The coordinator waits on the inbound queue, full of batches, while the
\* learner trains on a batch.
C26_Witness ==
    /\ PutBlocked
    /\ lpc = "train"
    /\ IsBatch(samples[2])
    /\ \A i \in DOMAIN inqueue : IsBatch(inqueue[i][2])

====
